---------------------------- MODULE Spec2Model ----------------------------
(***************************************************************************)
(* The x402 payment-gated mint of pog-token-api (src/server.js): GET /mint *)
(* takes a proof of a USDC payment (a transaction hash in the X-Payment-Tx *)
(* or X-Payment header), verifies it against the chain, transfers the      *)
(* fixed POG reward to the payer and records the hash in processedPayments.*)
(*                                                                         *)
(* JavaScript strings that the code slices, compares or lower-cases        *)
(* (hashes, addresses, log topics) are sequences of one-character strings. *)
(* Strings the code only passes along (messages) are TLA+ strings.         *)
(* A request is a slot of req; each await of the handler is a point where  *)
(* other requests may run, so each action runs from one await to the next. *)
(***************************************************************************)
EXTENDS Integers, Sequences, FiniteSets, TLC

VARIABLES
    processedPayments,  \* Map: normalized tx hash -> settlement record
    req,                \* per slot: the request being handled there
    ledger,             \* POG transfers the wallet submitted, in nonce order
    now,                \* the wall clock new Date() reads
    started             \* number of requests received so far

vars == <<processedPayments, req, ledger, now, started>>

-----------------------------------------------------------------------------
(* Bounds of the model *)

\* request slots: how many requests can be in flight at once
MaxInFlight == 2
\* requests received in one run when requests overlap
MaxRequests == 2
\* requests received in one run when each completes before the next begins
MaxSeqRequests == 3
\* largest value of the wall clock
MaxTime == 1

Slots == 1..MaxInFlight

-----------------------------------------------------------------------------
(* JavaScript string operations *)

\* c.repeat(n)
repeat(c, n) == SubSeq([i \in 1..n |-> c], 1, n)

toLowerCaseChar(c) ==
    CASE c = "A" -> "a" [] c = "B" -> "b" [] c = "C" -> "c"
      [] c = "D" -> "d" [] c = "E" -> "e" [] c = "F" -> "f"
      [] c = "X" -> "x" [] OTHER -> c

\* s.toLowerCase()
toLowerCase(s) == SubSeq([i \in 1..Len(s) |-> toLowerCaseChar(s[i])], 1, Len(s))

\* s.startsWith(p)
startsWith(s, p) == Len(s) >= Len(p) /\ SubSeq(s, 1, Len(p)) = p

\* s.slice(a): the characters from index a (0-based) to the end
sliceFrom(s, a) == SubSeq(s, a + 1, Len(s))

\* s.slice(0, b): the first b characters (all of s when it is shorter)
sliceTo(s, b) == SubSeq(s, 1, IF b < Len(s) THEN b ELSE Len(s))

HexDigits == {"0", "1", "2", "3", "4", "5", "6", "7", "8", "9",
              "a", "b", "c", "d", "e", "f", "A", "B", "C", "D", "E", "F"}

\* an optional value (a header, a query parameter): undefined or a string
Undefined == [present |-> FALSE, value |-> <<>>]
Str(s) == [present |-> TRUE, value |-> s]
\* JavaScript truthiness of an optional string: undefined and "" are falsy
Truthy(h) == h.present /\ h.value # <<>>

-----------------------------------------------------------------------------
(* Configuration *)

\* '0x833589fCD6eDb6E08f4c7C32D4f71b54bdA02913'
USDC_CONTRACT_ADDRESS ==
    <<"0","x","8","3","3","5","8","9","f","C","D","6","e","D","b","6",
      "E","0","8","f","4","c","7","C","3","2","D","4","f","7","1","b",
      "5","4","b","d","A","0","2","9","1","3">>

\* process.env.PAYMENT_ADDRESS, written with mixed (checksum) case
PAYMENT_ADDRESS == <<"0","x">> \o repeat("C", 20) \o repeat("c", 20)

\* ethers.parseUnits('1', 6)
REQUIRED_USDC_AMOUNT == 1000000
\* ethers.parseEther('10000'), counted in whole POG
POG_MINT_AMOUNT == 10000
\* the length of a transaction hash without its 0x prefix
HashHexLen == 64

\* ethers.id('Transfer(address,address,uint256)')
eventTopic == "0xddf252ad1be2c89b69c2b068fc378daa952ba7f163c4a11628f55a4df523b3ef"
\* the topic of another event of the token (Approval)
approvalTopic == "0x8c5be1e5ebec7d5bd14f71427d1e84f3dd0314c0f7b2291e5b200ac8c7c3b925"


-----------------------------------------------------------------------------
(* The chain the provider reads (Base mainnet): receipts are immutable *)

\* addresses that pay, as the node reports them (lower case)
PayerA == <<"0","x">> \o repeat("a", 40)
PayerB == <<"0","x">> \o repeat("b", 40)
\* an address that is neither the payee nor a payer
Stranger == <<"0","x">> \o repeat("e", 40)
\* an ERC-20 contract other than USDC
OtherToken == <<"0","x">> \o repeat("7", 40)

\* an address as an indexed event argument: 32 bytes, left-padded with zeros
Topic(addr) == <<"0","x">> \o repeat("0", 24) \o sliceFrom(toLowerCase(addr), 2)

\* a Transfer(from, to, value) log emitted by contract token
TransferLog(token, from, to, value) ==
    [address |-> token, topics |-> <<eventTopic, Topic(from), Topic(to)>>,
     data |-> value]
\* an Approval(owner, spender, value) log
ApprovalLog(token, owner, spender, value) ==
    [address |-> token, topics |-> <<approvalTopic, Topic(owner), Topic(spender)>>,
     data |-> value]
\* a log of the token that carries the Transfer topic and no indexed arguments
BareLog(token, value) ==
    [address |-> token, topics |-> <<eventTopic>>, data |-> value]

TxHash(c) == <<"0","x">> \o repeat(c, HashHexLen)

\* the transaction hashes the requests carry, by what their receipts hold
HashExact == TxHash("a")       \* a transfer of exactly the minimum
HashBelow == TxHash("b")       \* a transfer one unit below the minimum
HashReverted == TxHash("c")    \* a reverted transaction
HashSplit == TxHash("d")       \* two transfers that reach the minimum together
HashMixed == TxHash("e")       \* several logs, two of them qualifying
HashOtherToken == TxHash("f")  \* a transfer of another token
HashUnknown == TxHash("9")     \* no such transaction

NoReceipt == [found |-> FALSE, status |-> 0, logs |-> <<>>]
Receipt(status, logs) == [found |-> TRUE, status |-> status, logs |-> logs]

\* exactly the minimum, from PayerA
ReceiptExact ==
    Receipt(1, <<TransferLog(USDC_CONTRACT_ADDRESS, PayerA,
                             PAYMENT_ADDRESS, REQUIRED_USDC_AMOUNT)>>)
\* one unit below the minimum
ReceiptBelow ==
    Receipt(1, <<TransferLog(USDC_CONTRACT_ADDRESS, PayerA,
                             PAYMENT_ADDRESS, REQUIRED_USDC_AMOUNT - 1)>>)
\* a reverted transaction
ReceiptReverted == Receipt(0, <<>>)
\* two transfers below the minimum whose sum reaches it
ReceiptSplit ==
    Receipt(1, <<TransferLog(USDC_CONTRACT_ADDRESS, PayerA, PAYMENT_ADDRESS, 600000),
                 TransferLog(USDC_CONTRACT_ADDRESS, PayerA, PAYMENT_ADDRESS, 600000)>>)
\* other logs first, then two qualifying transfers: PayerB's, then PayerA's
ReceiptMixed ==
    Receipt(1, <<ApprovalLog(USDC_CONTRACT_ADDRESS, PayerA, PAYMENT_ADDRESS, 3000000),
                 BareLog(USDC_CONTRACT_ADDRESS, 3000000),
                 TransferLog(USDC_CONTRACT_ADDRESS, PayerA, Stranger, 3000000),
                 TransferLog(USDC_CONTRACT_ADDRESS, PayerB, PAYMENT_ADDRESS, 2000000),
                 TransferLog(USDC_CONTRACT_ADDRESS, PayerA,
                             PAYMENT_ADDRESS, REQUIRED_USDC_AMOUNT)>>)
\* a transfer of another token to the payee
ReceiptOtherToken ==
    Receipt(1, <<TransferLog(OtherToken, PayerA, PAYMENT_ADDRESS, 5000000)>>)

\* the receipt the chain holds for a 32-byte hash (given in lower case)
ChainReceipt(h) ==
    CASE h = HashExact -> ReceiptExact
      [] h = HashBelow -> ReceiptBelow
      [] h = HashReverted -> ReceiptReverted
      [] h = HashSplit -> ReceiptSplit
      [] h = HashMixed -> ReceiptMixed
      [] h = HashOtherToken -> ReceiptOtherToken
      [] OTHER -> NoReceipt

\* whether the node accepts s as a transaction hash: 0x and 64 hex digits
IsHashArgument(s) ==
    /\ Len(s) = 2 + HashHexLen
    /\ SubSeq(s, 1, 2) = <<"0","x">>
    /\ \A i \in 3..Len(s) : s[i] \in HexDigits

\* provider.getTransactionReceipt(txHash) when the call returns: the node
\* decodes the hex digits to bytes, so their letter case does not matter
getTransactionReceipt(txHash) == ChainReceipt(toLowerCase(txHash))

-----------------------------------------------------------------------------
(* verifyUSDCPayment *)

\* the result object of verifyUSDCPayment
Rejected(error) == [verified |-> FALSE, error |-> error, payer |-> <<>>, amount |-> 0]
Verified(payer, amount) == [verified |-> TRUE, error |-> "", payer |-> payer, amount |-> amount]
NoVerification == Rejected("")

\* '0x' + log.topics[1].slice(26), '0x' + log.topics[2].slice(26)
transferFromAddress(log) == <<"0","x">> \o sliceFrom(log.topics[2], 26)
transferToAddress(log) == <<"0","x">> \o sliceFrom(log.topics[3], 26)

\* variant: the minimum itself does not suffice
amountExceeds(amount) == amount > REQUIRED_USDC_AMOUNT

\* the amount test of the log scan
amountSuffices(amount) == amount >= REQUIRED_USDC_AMOUNT

\* variant: a Transfer log of any contract counts
isAnyTokenLog(log) == TRUE

\* the token test of the log scan
isUSDCLog(log) == toLowerCase(log.address) = toLowerCase(USDC_CONTRACT_ADDRESS)

\* whether the loop body sets usdcTransferFound for this log; reading a topic
\* the log does not have throws inside the try, and the log is skipped
logQualifies(log) ==
    /\ isUSDCLog(log)
    /\ Len(log.topics) >= 1
    /\ log.topics[1] = eventTopic
    /\ Len(log.topics) >= 3
    /\ toLowerCase(transferToAddress(log)) = toLowerCase(PAYMENT_ADDRESS)
    /\ amountSuffices(log.data)

\* variant: the scan goes through every log and the last one that qualifies
\* is kept
scanLogsLastMatch(logs, i) ==
    LET found == {k \in i..Len(logs) : logQualifies(logs[k])} IN
    IF found = {}
    THEN [usdcTransferFound |-> FALSE, transferAmount |-> 0, transferTo |-> <<>>]
    ELSE LET last == CHOOSE k \in found : \A j \in found : j <= k IN
         [usdcTransferFound |-> TRUE,
          transferAmount |-> logs[last].data,
          transferTo |-> transferFromAddress(logs[last])]

RECURSIVE scanLogs(_, _)
\* for (const log of receipt.logs), from the i-th log on: the first log
\* that qualifies ends the loop
scanLogs(logs, i) ==
    IF i > Len(logs)
    THEN [usdcTransferFound |-> FALSE, transferAmount |-> 0, transferTo |-> <<>>]
    ELSE IF logQualifies(logs[i])
         THEN [usdcTransferFound |-> TRUE,
               transferAmount |-> logs[i].data,
               transferTo |-> transferFromAddress(logs[i])]
         ELSE scanLogs(logs, i + 1)

\* variant: the payer the caller claims is taken as the payer
verifyLogsTrustingClaim(receipt, payer) ==
    LET scan == scanLogs(receipt.logs, 1) IN
    IF ~scan.usdcTransferFound
    THEN Rejected("No USDC transfer to payment address found")
    ELSE Verified(IF Truthy(payer) THEN toLowerCase(payer.value) ELSE scan.transferTo,
                  scan.transferAmount)

\* verifyUSDCPayment from the log scan to its return
verifyLogs(receipt, payer) ==
    LET scan == scanLogs(receipt.logs, 1) IN
    IF ~scan.usdcTransferFound
    THEN Rejected("No USDC transfer to payment address found")
    ELSE IF Truthy(payer) /\ toLowerCase(payer.value) # toLowerCase(scan.transferTo)
         THEN Rejected("Payer address does not match transaction")
         ELSE Verified(scan.transferTo, scan.transferAmount)

-----------------------------------------------------------------------------
(* Responses of GET /mint *)

NoResponse == [status |-> 0]

\* the address of the server wallet, which holds the POG to distribute
WalletAddress == <<"0","x">> \o repeat("d", 40)

\* variant: the challenge names the server wallet as payee
challengeAcceptsWallet ==
    [scheme |-> "exact", network |-> "base", maxAmountRequired |-> "1000000",
     resource |-> "https://pog-token-api.vercel.app/mint",
     payTo |-> WalletAddress, maxTimeoutSeconds |-> 300,
     asset |-> USDC_CONTRACT_ADDRESS]

\* the payment descriptor of the 402 challenge
challengeAccepts ==
    [scheme |-> "exact", network |-> "base", maxAmountRequired |-> "1000000",
     resource |-> "https://pog-token-api.vercel.app/mint",
     payTo |-> PAYMENT_ADDRESS, maxTimeoutSeconds |-> 300,
     asset |-> USDC_CONTRACT_ADDRESS]

\* res.status(402) when no proof is given
challengeResponse ==
    [status |-> 402,
     body |-> [x402Version |-> 1, error |-> "X-Payment-Tx header is required",
               accepts |-> <<challengeAccepts>>]]

\* variant: a resubmitted hash is answered as a success
alreadyProcessedAsSuccess(txHash) ==
    [status |-> 200,
     body |-> [success |-> TRUE, paymentTransaction |-> txHash]]

\* variant: the answer to a resubmitted hash does not say which hash
alreadyProcessedNoEcho(txHash) ==
    [status |-> 400,
     body |-> [success |-> FALSE, error |-> "Payment already processed",
               transactionHash |-> <<>>]]

\* res.status(400) when the hash is in processedPayments
alreadyProcessedResponse(txHash) ==
    [status |-> 400,
     body |-> [success |-> FALSE, error |-> "Payment already processed",
               transactionHash |-> txHash]]

\* variant: the rejection names the server wallet as payee
verificationFailedPayToWallet(verification) ==
    [status |-> 402,
     body |-> [success |-> FALSE, error |-> "Payment verification failed",
               message |-> verification.error, x402Version |-> 1,
               accepts |-> <<[scheme |-> "exact", network |-> "base",
                              maxAmountRequired |-> "1000000",
                              resource |-> "https://pog-token-api.vercel.app/mint",
                              payTo |-> WalletAddress,
                              asset |-> USDC_CONTRACT_ADDRESS]>>]]

\* res.status(402) when verification fails
verificationFailedResponse(verification) ==
    [status |-> 402,
     body |-> [success |-> FALSE, error |-> "Payment verification failed",
               message |-> verification.error, x402Version |-> 1,
               accepts |-> <<[scheme |-> "exact", network |-> "base",
                              maxAmountRequired |-> "1000000",
                              resource |-> "https://pog-token-api.vercel.app/mint",
                              payTo |-> PAYMENT_ADDRESS,
                              asset |-> USDC_CONTRACT_ADDRESS]>>]]

\* res.json of a completed mint
successResponse(txHash, mintTxHash, payer, timestamp) ==
    [status |-> 200,
     body |-> [success |-> TRUE, paymentTransaction |-> txHash,
               mintTransaction |-> mintTxHash, recipient |-> payer,
               amount |-> "10,000 POG", network |-> "Base Mainnet",
               timestamp |-> timestamp]]

\* res.status(500) of the handler's catch
failureResponse(message) ==
    [status |-> 500,
     body |-> [success |-> FALSE, error |-> "Failed to process mint request",
               message |-> message]]

-----------------------------------------------------------------------------
(* GET /mint *)

\* the cleaning of the proof header into the key of processedPayments
cleanHash(header) ==
    LET stripped == IF startsWith(header, <<"0","x">>)
                    THEN sliceFrom(header, 2) ELSE header
        cut == IF Len(stripped) > HashHexLen
               THEN sliceTo(stripped, HashHexLen) ELSE stripped
    IN <<"0","x">> \o cut

\* paymentTxHeader || paymentHeader
proofHeader(xPaymentTx, xPayment) ==
    IF Truthy(xPaymentTx) THEN xPaymentTx.value ELSE xPayment.value

\* !paymentTxHeader && !paymentHeader
proofMissing(xPaymentTx, xPayment) == ~Truthy(xPaymentTx) /\ ~Truthy(xPayment)

\* variant: the processed check is skipped
alreadyProcessedSkipped(txHash) == FALSE

\* processedPayments.has(txHash)
alreadyProcessed(txHash) == txHash \in DOMAIN processedPayments

\* variant: the record names the server wallet as payer
settlementRecordOfWallet(payer, mintTxHash, timestamp) ==
    [payer |-> WalletAddress, mintTxHash |-> mintTxHash, timestamp |-> timestamp,
     amount |-> "10000 POG"]

\* the record processedPayments.set stores
settlementRecord(payer, mintTxHash, timestamp) ==
    [payer |-> payer, mintTxHash |-> mintTxHash, timestamp |-> timestamp,
     amount |-> "10000 POG"]

\* a slot with no request
IdleReq ==
    [pc |-> "idle", id |-> 0, xPaymentTx |-> Undefined, xPayment |-> Undefined,
     payerQuery |-> Undefined, txHash |-> <<>>, receipt |-> NoReceipt,
     verification |-> NoVerification, mintTx |-> 0, chainReads |-> 0,
     res |-> NoResponse]

\* variant: the response is sent and the handler does not return
RespondAndGoOn(q, r) == [q EXCEPT !.res = r]

\* the request ends with response r
Respond(q, r) == [q EXCEPT !.pc = "done", !.res = r, !.receipt = NoReceipt]

Init ==
    /\ processedPayments = <<>>
    /\ req = [r \in Slots |-> IdleReq]
    /\ ledger = <<>>
    /\ now = 0
    /\ started = 0

\* a request arrives and is handled up to its first await (lines 174-248 and
\* verifyUSDCPayment up to the receipt fetch)
Start(r, in) ==
    /\ req[r].pc \in {"idle", "done"}
    /\ started' = started + 1
    /\ LET q == [IdleReq EXCEPT !.id = started + 1,
                                !.xPaymentTx = in.xPaymentTx,
                                !.xPayment = in.xPayment,
                                !.payerQuery = in.payer]
           txHash == cleanHash(proofHeader(in.xPaymentTx, in.xPayment))
       IN req' = [req EXCEPT ![r] =
            IF proofMissing(in.xPaymentTx, in.xPayment)
            THEN Respond(q, challengeResponse)
            ELSE IF alreadyProcessed(txHash)
                 THEN Respond([q EXCEPT !.txHash = txHash],
                              alreadyProcessedResponse(txHash))
                 ELSE [q EXCEPT !.txHash = txHash, !.pc = "awaitReceipt",
                                !.chainReads = 1]]
    /\ UNCHANGED <<processedPayments, ledger, now>>

\* how a call to the provider ends: it returns, or it throws (an RPC error)
CallOutcomes == {"returns", "throws"}
\* how provider.getTransaction ends: the transaction, null, or an RPC error
TxOutcomes == {"returns", "null", "throws"}
\* how mintTx.wait() ends: a receipt of status 1, a receipt of status 0,
\* null, or an error thrown before the fate of the transfer is known
WaitOutcomes == {"status1", "status0", "null", "throws"}

\* variant: the handler goes on to mint whatever the verification says
mayMintUnchecked(verification) == TRUE

\* if (!verification.verified) of the handler
mayMint(verification) == verification.verified

\* the handler from the return of verifyUSDCPayment to its next await
afterVerification(q, verification) ==
    IF ~mayMint(verification)
    THEN Respond([q EXCEPT !.verification = verification],
                 verificationFailedResponse(verification))
    ELSE [q EXCEPT !.verification = verification, !.receipt = NoReceipt,
                   !.pc = "awaitTransfer"]

\* variant: the status of the receipt is not looked at
receiptFailedNever(receipt) == FALSE

\* receipt.status !== 1
receiptFailed(receipt) == receipt.status # 1

\* provider.getTransactionReceipt ends (lines 82-101): an RPC error is caught
\* by verifyUSDCPayment; an absent or failed receipt is rejected; otherwise
\* the transaction is fetched
ReceiptReturns(r, outcome) ==
    /\ req[r].pc = "awaitReceipt"
    /\ outcome = "returns" => IsHashArgument(req[r].txHash)
    /\ LET q == req[r]
           receipt == getTransactionReceipt(q.txHash)
       IN req' = [req EXCEPT ![r] =
            IF outcome = "throws"
            THEN afterVerification(q, Rejected("RPC error"))
            ELSE IF ~receipt.found
                 THEN afterVerification(q, Rejected(
                    "Transaction not found. Please verify the hash and ensure it is confirmed."))
                 ELSE IF receiptFailed(receipt)
                      THEN afterVerification(q, Rejected("Transaction failed"))
                      ELSE [q EXCEPT !.receipt = receipt, !.pc = "awaitTx",
                                     !.chainReads = 2]]
    /\ UNCHANGED <<processedPayments, ledger, now, started>>

\* provider.getTransaction ends (lines 101-171, 250-274): the logs are
\* scanned, the payer is checked, and a verified payment calls
\* pogContract.transfer
TxReturns(r, outcome) ==
    /\ req[r].pc = "awaitTx"
    /\ LET q == req[r] IN
       req' = [req EXCEPT ![r] =
            CASE outcome = "throws" -> afterVerification(q, Rejected("RPC error"))
              [] outcome = "null" ->
                    afterVerification(q, Rejected("Transaction details not found"))
              [] OTHER -> afterVerification(q, verifyLogs(q.receipt, q.payerQuery))]
    /\ UNCHANGED <<processedPayments, ledger, now, started>>

\* variant: the reward is in proportion to the amount paid
mintTransferPerUSDC(q) ==
    [to |-> q.verification.payer,
     amount |-> q.verification.amount \div (REQUIRED_USDC_AMOUNT \div POG_MINT_AMOUNT),
     key |-> q.txHash, by |-> q.id, status |-> "pending"]

\* the transfer the wallet submits for a request
mintTransfer(q) ==
    [to |-> q.verification.payer, amount |-> POG_MINT_AMOUNT,
     key |-> q.txHash, by |-> q.id, status |-> "pending"]

\* pogContract.transfer ends (lines 274-275): it throws and the catch
\* answers 500, or the transfer is submitted and its confirmation awaited
TransferReturns(r, outcome) ==
    /\ req[r].pc = "awaitTransfer"
    /\ LET q == req[r] IN
       IF outcome = "throws"
       THEN /\ req' = [req EXCEPT ![r] = Respond(q, failureResponse("transfer failed"))]
            /\ UNCHANGED ledger
       ELSE /\ ledger' = Append(ledger, mintTransfer(q))
            /\ req' = [req EXCEPT ![r] = [q EXCEPT !.mintTx = Len(ledger) + 1,
                                                   !.pc = "awaitWait"]]
    /\ UNCHANGED <<processedPayments, now, started>>

\* variant: setting a key drops every other entry
markProcessedAlone(txHash, record) == [k \in {txHash} |-> record]

\* processedPayments.set(txHash, record)
markProcessed(txHash, record) ==
    [k \in DOMAIN processedPayments \cup {txHash} |->
        IF k = txHash THEN record ELSE processedPayments[k]]

\* what the chain holds for the transfer once the wait has ended: confirmed,
\* reverted, or still unknown to the handler
transferFate(outcome, status) ==
    CASE outcome = "status1" -> "confirmed"
      [] outcome = "status0" -> "reverted"
      [] OTHER -> status

\* variant: any receipt counts, its status is not looked at
mintSucceededAnyReceipt(outcome) == outcome \in {"status1", "status0"}

\* whether the awaited receipt lets the handler go on to mark the payment
mintSucceeded(outcome) == outcome = "status1"

\* mintTx.wait() ends (lines 275-300): a missing or failed receipt throws to
\* the catch; a receipt of status 1 marks the hash processed and answers 200.
\* t1 and t2 are the two readings of new Date(), for the record and the body
WaitReturns(r, outcome, t1, t2) ==
    /\ req[r].pc = "awaitWait"
    /\ LET q == req[r]
           payer == q.verification.payer
       IN /\ ledger' = [ledger EXCEPT ![q.mintTx].status = transferFate(outcome, @)]
          /\ IF mintSucceeded(outcome)
             THEN /\ t1 >= now /\ t2 >= t1
                  /\ now' = t2
                  /\ processedPayments' =
                        markProcessed(q.txHash, settlementRecord(payer, q.mintTx, t1))
                  /\ req' = [req EXCEPT ![r] =
                        Respond(q, successResponse(q.txHash, q.mintTx, payer, t2))]
             ELSE /\ t1 = now /\ t2 = now
                  /\ req' = [req EXCEPT ![r] =
                        Respond(q, failureResponse(
                           IF outcome = "throws" THEN "wait failed"
                           ELSE "Mint transaction failed"))]
                  /\ UNCHANGED <<processedPayments, now>>
    /\ UNCHANGED started

-----------------------------------------------------------------------------
(* GET /stats *)

\* totalMints: processedPayments.size (line 319)
totalMints == Cardinality(DOMAIN processedPayments)

-----------------------------------------------------------------------------
(* The requests the model sends *)

Request(xPaymentTx, xPayment, payer) ==
    [xPaymentTx |-> xPaymentTx, xPayment |-> xPayment, payer |-> payer]

\* the hash of the qualifying payment, in upper-case hex digits
UpperHashA == <<"0","x">> \o repeat("A", HashHexLen)

\* requests handled concurrently
Inputs ==
    { Request(Str(HashExact), Undefined, Undefined),
      Request(Undefined, Str(repeat("a", HashHexLen)), Undefined),
      Request(Str(UpperHashA), Undefined, Undefined),
      Request(Str(HashBelow), Undefined, Undefined) }

\* requests handled one after the other: every header form and payer claim
Headers ==
    { HashExact, HashBelow, HashReverted, HashSplit, HashMixed,
      HashOtherToken, HashUnknown,
      repeat("a", HashHexLen),                  \* no 0x prefix
      UpperHashA,                               \* upper-case digits
      HashExact \o <<"0", "1">>,              \* characters after the hash
      <<"0","x","a","b","c">>,                  \* too short
      <<"0","x">> \o repeat("z", HashHexLen) }  \* not hex
\* the ?payer values: none, PayerA in mixed case, PayerB
Payers ==
    { Undefined, Str(<<"0","x">> \o repeat("A", 20) \o repeat("a", 20)),
      Str(PayerB) }

SeqInputs ==
    {Request(Undefined, Undefined, Undefined), Request(Str(<<>>), Undefined, Undefined),
     Request(Str(HashBelow), Str(HashExact), Undefined),
     Request(Undefined, Str(HashExact), Undefined)}
    \cup {Request(Str(h), Undefined, Undefined) : h \in Headers}
    \cup {Request(Str(h), Undefined, p) : h \in {HashExact, HashMixed}, p \in Payers}

\* the slot a new request takes: the lowest one that is free (slots are
\* interchangeable)
FreeSlot(r) ==
    /\ req[r].pc \in {"idle", "done"}
    /\ \A s \in Slots : s < r => req[s].pc \notin {"idle", "done"}

Step(r) ==
    \/ \E o \in CallOutcomes : ReceiptReturns(r, o)
    \/ \E o \in TxOutcomes : TxReturns(r, o)
    \/ \E o \in CallOutcomes : TransferReturns(r, o)
    \/ \E o \in WaitOutcomes, t1, t2 \in 0..MaxTime : WaitReturns(r, o, t1, t2)

\* requests overlap: any request may arrive while others are awaited
Next ==
    \E r \in Slots :
        \/ /\ started < MaxRequests
           /\ FreeSlot(r)
           /\ \E in \in Inputs : Start(r, in)
        \/ Step(r)

Spec == Init /\ [][Next]_vars

\* strictly sequential requests: a request arrives only when none is in flight
NextSeq ==
    \/ /\ started < MaxSeqRequests
       /\ \E in \in SeqInputs : Start(1, in)
    \/ Step(1)

SpecSeq == Init /\ [][NextSeq]_vars

-----------------------------------------------------------------------------
(* The permit variant (src/unnamed/part_000): the X-Payment header carries a
   signed EIP-2612 authorization, which the server relays (permit, then
   transferFrom) before it sends the reward. It is a program of its own with
   the same state: processedPayments is a Set of signatures, ledger holds
   every transaction the wallet sends. *)

\* the number a parse yields, or NaN
NaN == [nan |-> TRUE, n |-> 0]
Num(n) == [nan |-> FALSE, n |-> n]

Digits == {"0", "1", "2", "3", "4", "5", "6", "7", "8", "9"}
DigitValue(c) ==
    CASE c = "0" -> 0 [] c = "1" -> 1 [] c = "2" -> 2 [] c = "3" -> 3
      [] c = "4" -> 4 [] c = "5" -> 5 [] c = "6" -> 6 [] c = "7" -> 7
      [] c = "8" -> 8 [] c = "9" -> 9

RECURSIVE leadingDigits(_, _)
\* the length of the run of decimal digits of s that starts at index i
leadingDigits(s, i) ==
    IF i <= Len(s) /\ s[i] \in Digits THEN 1 + leadingDigits(s, i + 1) ELSE 0

RECURSIVE digitsValue(_, _)
\* the number the first n characters of s denote in base 10
digitsValue(s, n) ==
    IF n = 0 THEN 0 ELSE 10 * digitsValue(s, n - 1) + DigitValue(s[n])

RECURSIVE skipWhiteSpace(_)
skipWhiteSpace(s) ==
    IF s # <<>> /\ Head(s) = " " THEN skipWhiteSpace(Tail(s)) ELSE s

\* parseInt(v) for an optional string without a 0x prefix: leading white
\* space and a sign are accepted, the digits that follow are read, and what
\* comes after them is ignored; without a digit the result is NaN
parseInt(v) ==
    IF ~v.present THEN NaN
    ELSE LET t == skipWhiteSpace(v.value)
             negative == t # <<>> /\ Head(t) = "-"
             u == IF t # <<>> /\ Head(t) \in {"-", "+"} THEN Tail(t) ELSE t
             n == leadingDigits(u, 1)
         IN IF n = 0 THEN NaN
            ELSE Num(IF negative THEN 0 - digitsValue(u, n) ELSE digitsValue(u, n))

\* a < b of JavaScript numbers: false when either is NaN
lessThan(a, b) == ~a.nan /\ ~b.nan /\ a.n < b.n

\* the X-Payment header values: text that is the base64 of a JSON document,
\* or text that is not
Base64Json(value) == [json |-> TRUE, value |-> value]
NotBase64Json == [json |-> FALSE, value |-> [isNull |-> TRUE]]

\* the JSON documents: null, an object without payload, a payload without
\* authorization, a payload with authorization and signature
JsonNull == [isNull |-> TRUE]
JsonObject(payload) == [isNull |-> FALSE, payload |-> payload]
NoPayload == [present |-> FALSE]
Payload(authorization, signature) ==
    [present |-> TRUE, authorization |-> authorization, signature |-> signature]
NoAuthorization == [present |-> FALSE]
Authorization(from, to, value) ==
    [present |-> TRUE, from |-> from, to |-> to, value |-> value]

\* JSON.parse(Buffer.from(paymentHeader, 'base64').toString('utf-8'))
decodePayment(header) ==
    IF header.json THEN [ok |-> TRUE, paymentData |-> header.value]
    ELSE [ok |-> FALSE, paymentData |-> JsonNull]

\* the signatures ethers.Signature.from accepts (65 bytes r, s, v)
SigA == "0xsigA"
SigB == "0xsigB"
\* a signature it throws on
SigMalformed == "0xsig"
signatureParses(signature) == signature.present /\ signature.value \in {SigA, SigB}

\* variant: a zero is missing from the minimum
insufficientAmountTypo(paymentAmount) == lessThan(paymentAmount, Num(100000))

\* paymentAmount < 1000000
insufficientAmount(paymentAmount) == lessThan(paymentAmount, Num(1000000))

\* auth.to.toLowerCase() !== wallet.address.toLowerCase()
invalidRecipient(to) == toLowerCase(to) # toLowerCase(WalletAddress)

\* res.status(402) when no header is given
permitChallengeResponse ==
    [status |-> 402,
     body |-> [x402Version |-> 1, error |-> "X-PAYMENT header is required",
               accepts |-> <<[scheme |-> "exact", network |-> "base",
                              maxAmountRequired |-> "1000000",
                              resource |-> "https://pog-token-api.vercel.app/mint",
                              payTo |-> WalletAddress, maxTimeoutSeconds |-> 60,
                              asset |-> USDC_CONTRACT_ADDRESS]>>]]

\* the res.status(400) answers of the variant before the relay
invalidFormatResponse ==
    [status |-> 400,
     body |-> [success |-> FALSE, error |-> "Invalid payment format",
               message |-> "Payment data must be base64-encoded JSON"]]
missingAuthorizationResponse ==
    [status |-> 400,
     body |-> [success |-> FALSE, error |-> "Missing authorization data", message |-> ""]]
permitAlreadyProcessedResponse ==
    [status |-> 400,
     body |-> [success |-> FALSE, error |-> "Payment already processed", message |-> ""]]
insufficientAmountResponse ==
    [status |-> 400,
     body |-> [success |-> FALSE, error |-> "Insufficient payment amount",
               message |-> "Must pay at least 1 USDC"]]
invalidRecipientResponse ==
    [status |-> 400,
     body |-> [success |-> FALSE, error |-> "Invalid payment recipient",
               message |-> "Payment must be sent to wallet.address"]]

\* res.status(500) of the outer catch
permitFailureResponse(message) ==
    [status |-> 500,
     body |-> [success |-> FALSE, error |-> "Failed to process payment",
               message |-> message]]

\* variant: a relay error is left to the outer catch
authorizationFailedAsFailure(message) == permitFailureResponse(message)

\* res.status(400) of the catch around permit and transferFrom
authorizationFailedResponse(message) ==
    [status |-> 400,
     body |-> [success |-> FALSE, error |-> "Payment authorization failed",
               message |-> message]]

\* res.json of a completed mint
permitSuccessResponse(mintTxHash, payer) ==
    [status |-> 200,
     body |-> [success |-> TRUE, transactionHash |-> mintTxHash,
               recipient |-> payer, amount |-> "10000 POG"]]

\* a slot of the variant with no request
IdlePermitReq ==
    [pc |-> "idle", id |-> 0, xPayment |-> Undefined, xPaymentTx |-> Undefined,
     auth |-> NoAuthorization, signature |-> Undefined, paymentId |-> Undefined,
     permitTx |-> 0, transferTx |-> 0, mintTx |-> 0, res |-> NoResponse]

InitPermit ==
    /\ processedPayments = {}
    /\ req = [r \in Slots |-> IdlePermitReq]
    /\ ledger = <<>>
    /\ now = 0
    /\ started = 0

\* the request ends with response r
RespondPermit(q, r) == [q EXCEPT !.pc = "done", !.res = r]

\* variant: the key is made of the signature and the authorization around it
paymentIdOfEnvelope(payload) ==
    [present |-> payload.signature.present, value |-> payload.signature.value,
     authorization |-> payload.authorization]

\* const paymentId = signature (part_000:153-155; part_001:139)
paymentIdOf(payload) == payload.signature

\* the handler from the decoded paymentData to its first await (lines
\* 144-192): the authorization is examined, then permit is called
checkAuthorization(q, paymentData) ==
    IF paymentData.isNull
    THEN RespondPermit(q, permitFailureResponse("Cannot read properties of null"))
    ELSE IF ~paymentData.payload.present \/ ~paymentData.payload.authorization.present
    THEN RespondPermit(q, missingAuthorizationResponse)
    ELSE LET auth == paymentData.payload.authorization
             signature == paymentData.payload.signature
             p == [q EXCEPT !.auth = auth, !.signature = signature,
                            !.paymentId = paymentIdOf(paymentData.payload)]
         IN IF p.paymentId \in processedPayments
            THEN RespondPermit(p, permitAlreadyProcessedResponse)
            ELSE IF insufficientAmount(parseInt(auth.value))
            THEN RespondPermit(p, insufficientAmountResponse)
            ELSE IF ~auth.to.present
            THEN RespondPermit(p, permitFailureResponse(
                    "Cannot read properties of undefined"))
            ELSE IF invalidRecipient(auth.to.value)
            THEN RespondPermit(p, invalidRecipientResponse)
            ELSE IF ~signatureParses(signature)
            THEN RespondPermit(p, permitFailureResponse("invalid signature"))
            ELSE [p EXCEPT !.pc = "awaitPermit"]

\* a request arrives and is handled up to its first await (lines 77-192)
StartPermit(r, in) ==
    /\ req[r].pc \in {"idle", "done"}
    /\ started' = started + 1
    /\ LET q == [IdlePermitReq EXCEPT !.id = started + 1,
                                      !.xPayment = in.xPayment,
                                      !.xPaymentTx = in.xPaymentTx]
           paymentHeader == IF in.xPayment.present THEN in.xPayment
                            ELSE in.xPaymentTx
       IN req' = [req EXCEPT ![r] =
            IF ~paymentHeader.present
            THEN RespondPermit(q, permitChallengeResponse)
            ELSE LET decoded == decodePayment(paymentHeader.value) IN
                 IF ~decoded.ok
                 THEN RespondPermit(q, invalidFormatResponse)
                 ELSE checkAuthorization(q, decoded.paymentData)]
    /\ UNCHANGED <<processedPayments, ledger, now>>

\* a transaction the wallet sends for a request
walletCall(q, call, from, to, amount) ==
    [call |-> call, by |-> q.id, key |-> q.paymentId, from |-> from, to |-> to,
     amount |-> amount, status |-> "pending"]

\* whether the awaited receipt of a relay transaction lets the handler go on
relaySucceeded(outcome) == outcome = "status1"

\* the message of the error a failed wait leaves in the catch
relayError(outcome, failed) == IF outcome = "throws" THEN "wait failed" ELSE failed

\* usdcContract.permit ends (lines 192-203): it throws into the catch around
\* the relay, or the permit is sent and its confirmation awaited
PermitReturns(r, outcome) ==
    /\ req[r].pc = "awaitPermit"
    /\ LET q == req[r] IN
       IF outcome = "throws"
       THEN /\ req' = [req EXCEPT ![r] =
                  RespondPermit(q, authorizationFailedResponse("permit failed"))]
            /\ UNCHANGED ledger
       ELSE /\ ledger' = Append(ledger,
                  walletCall(q, "permit", q.auth.from, WalletAddress, q.auth.value))
            /\ req' = [req EXCEPT ![r] = [q EXCEPT !.permitTx = Len(ledger) + 1,
                                                   !.pc = "awaitPermitWait"]]
    /\ UNCHANGED <<processedPayments, now, started>>

\* permitTx.wait() ends (lines 203-216): a missing or failed receipt throws
\* into the catch around the relay; a receipt of status 1 calls transferFrom
PermitWaitReturns(r, outcome) ==
    /\ req[r].pc = "awaitPermitWait"
    /\ LET q == req[r] IN
       /\ ledger' = [ledger EXCEPT ![q.permitTx].status = transferFate(outcome, @)]
       /\ req' = [req EXCEPT ![r] =
            IF relaySucceeded(outcome)
            THEN [q EXCEPT !.pc = "awaitTransferFrom"]
            ELSE RespondPermit(q, authorizationFailedResponse(
                    relayError(outcome, "Permit transaction failed")))]
    /\ UNCHANGED <<processedPayments, now, started>>

\* usdcContract.transferFrom ends (lines 212-219)
TransferFromReturns(r, outcome) ==
    /\ req[r].pc = "awaitTransferFrom"
    /\ LET q == req[r] IN
       IF outcome = "throws"
       THEN /\ req' = [req EXCEPT ![r] =
                  RespondPermit(q, authorizationFailedResponse("transferFrom failed"))]
            /\ UNCHANGED ledger
       ELSE /\ ledger' = Append(ledger,
                  walletCall(q, "transferFrom", q.auth.from, WalletAddress,
                             q.auth.value))
            /\ req' = [req EXCEPT ![r] = [q EXCEPT !.transferTx = Len(ledger) + 1,
                                                   !.pc = "awaitTransferFromWait"]]
    /\ UNCHANGED <<processedPayments, now, started>>

\* transferTx.wait() ends (lines 219-239): a missing or failed receipt throws
\* into the catch around the relay; a receipt of status 1 calls
\* pogContract.transfer
TransferFromWaitReturns(r, outcome) ==
    /\ req[r].pc = "awaitTransferFromWait"
    /\ LET q == req[r] IN
       /\ ledger' = [ledger EXCEPT ![q.transferTx].status = transferFate(outcome, @)]
       /\ req' = [req EXCEPT ![r] =
            IF relaySucceeded(outcome)
            THEN [q EXCEPT !.pc = "awaitMint"]
            ELSE RespondPermit(q, authorizationFailedResponse(
                    relayError(outcome, "USDC transfer failed")))]
    /\ UNCHANGED <<processedPayments, now, started>>

\* pogContract.transfer ends (lines 239-240): it throws to the outer catch,
\* or the reward is sent and its confirmation awaited
PermitMintReturns(r, outcome) ==
    /\ req[r].pc = "awaitMint"
    /\ LET q == req[r] IN
       IF outcome = "throws"
       THEN /\ req' = [req EXCEPT ![r] =
                  RespondPermit(q, permitFailureResponse("transfer failed"))]
            /\ UNCHANGED ledger
       ELSE /\ ledger' = Append(ledger,
                  walletCall(q, "transfer", WalletAddress, q.auth.from,
                             POG_MINT_AMOUNT))
            /\ req' = [req EXCEPT ![r] = [q EXCEPT !.mintTx = Len(ledger) + 1,
                                                   !.pc = "awaitMintWait"]]
    /\ UNCHANGED <<processedPayments, now, started>>

\* mintTx.wait() ends (lines 240-252): the receipt is not looked at; unless
\* the wait throws, the signature is added to processedPayments and the
\* answer is 200
PermitMintWaitReturns(r, outcome) ==
    /\ req[r].pc = "awaitMintWait"
    /\ LET q == req[r] IN
       /\ ledger' = [ledger EXCEPT ![q.mintTx].status = transferFate(outcome, @)]
       /\ IF outcome = "throws"
          THEN /\ req' = [req EXCEPT ![r] =
                     RespondPermit(q, permitFailureResponse("wait failed"))]
               /\ UNCHANGED processedPayments
          ELSE /\ processedPayments' = processedPayments \cup {q.paymentId}
               /\ req' = [req EXCEPT ![r] =
                     RespondPermit(q, permitSuccessResponse(q.mintTx, q.auth.from))]
    /\ UNCHANGED <<now, started>>

\* requests received in one run of the variant
MaxPermitRequests == 2

\* the value fields: the minimum, one unit below it, twice it, not a number
ValueExact == <<"1", "0", "0", "0", "0", "0", "0">>
ValueBelow == <<"9", "9", "9", "9", "9", "9">>
ValueDouble == <<"2", "0", "0", "0", "0", "0", "0">>
ValueWord == <<"o", "n", "e">>

\* the server wallet's address in upper-case digits
UpperWalletAddress == <<"0","x">> \o repeat("D", 40)

\* the authorizations: every pairing of a recipient with the minimum, and of
\* the server wallet with a value
Authorizations ==
    {Authorization(PayerA, to, Str(ValueExact)) :
        to \in {Str(WalletAddress), Str(UpperWalletAddress), Str(Stranger), Undefined}}
    \cup {Authorization(PayerA, Str(WalletAddress), value) :
        value \in {Str(ValueBelow), Str(ValueDouble), Str(ValueWord), Undefined}}
    \cup {Authorization(PayerA, Str(Stranger), Str(ValueBelow))}

PermitHeaders ==
    {NotBase64Json, Base64Json(JsonNull), Base64Json(JsonObject(NoPayload)),
     Base64Json(JsonObject(Payload(NoAuthorization, Undefined)))}
    \cup {Base64Json(JsonObject(Payload(a, Str(SigA)))) : a \in Authorizations}
    \cup {Base64Json(JsonObject(Payload(Authorization(PayerA, Str(WalletAddress),
                                                      Str(ValueExact)), g))) :
            g \in {Str(SigMalformed), Undefined}}

PermitInputs ==
    {[xPayment |-> Undefined, xPaymentTx |-> Undefined]}
    \cup {[xPayment |-> Str(h), xPaymentTx |-> Undefined] : h \in PermitHeaders}
    \cup {[xPayment |-> Undefined, xPaymentTx |-> Str(h)] :
            h \in {Base64Json(JsonObject(Payload(
                      Authorization(PayerB, Str(WalletAddress), Str(ValueExact)),
                      Str(SigB))))}}

\* the requests of the variant, one at a time
NextPermit ==
    \/ /\ started < MaxPermitRequests
       /\ \E in \in PermitInputs : StartPermit(1, in)
    \/ \E o \in CallOutcomes : PermitReturns(1, o)
    \/ \E o \in WaitOutcomes : PermitWaitReturns(1, o)
    \/ \E o \in CallOutcomes : TransferFromReturns(1, o)
    \/ \E o \in WaitOutcomes : TransferFromWaitReturns(1, o)
    \/ \E o \in CallOutcomes : PermitMintReturns(1, o)
    \/ \E o \in WaitOutcomes : PermitMintWaitReturns(1, o)

SpecPermit == InitPermit /\ [][NextPermit]_vars

-----------------------------------------------------------------------------
(* The hybrid variant (src/unnamed/part_001, lines 1-290): the header is
   either the base64 of a JSON envelope with an authorization, which is taken
   at its word, or the hash of a payment transaction, whose receipt is
   scanned. The payee is the server wallet; processedPayments is a Set of
   signatures and raw header values. *)

\* a header whose text is not the base64 of a JSON document
TextHeader(text) == [json |-> FALSE, value |-> JsonNull, text |-> text]

\* whether the node accepts the header as a transaction hash
headerIsHash(header) == ~header.json /\ IsHashArgument(header.text)

\* the receipts of the payments to the server wallet
ReceiptToWallet ==
    Receipt(1, <<TransferLog(USDC_CONTRACT_ADDRESS, PayerA,
                             WalletAddress, REQUIRED_USDC_AMOUNT)>>)
ReceiptBelowToWallet ==
    Receipt(1, <<TransferLog(USDC_CONTRACT_ADDRESS, PayerA,
                             WalletAddress, REQUIRED_USDC_AMOUNT - 1)>>)
\* a transfer of another token to the server wallet
ReceiptOtherTokenToWallet ==
    Receipt(1, <<TransferLog(OtherToken, PayerA, WalletAddress, 5000000)>>)
\* other logs first, then a payment by PayerB
ReceiptMixedToWallet ==
    Receipt(1, <<ApprovalLog(USDC_CONTRACT_ADDRESS, PayerB, WalletAddress, 3000000),
                 BareLog(USDC_CONTRACT_ADDRESS, 3000000),
                 TransferLog(USDC_CONTRACT_ADDRESS, PayerB, Stranger, 3000000),
                 TransferLog(USDC_CONTRACT_ADDRESS, PayerB, WalletAddress, 2000000)>>)

\* the receipt the chain holds for a 32-byte hash when the payee is the
\* server wallet
WalletChainReceipt(h) ==
    CASE h = HashExact -> ReceiptToWallet
      [] h = HashBelow -> ReceiptBelowToWallet
      [] h = HashReverted -> ReceiptReverted
      [] h = HashMixed -> ReceiptMixedToWallet
      [] h = HashOtherToken -> ReceiptOtherTokenToWallet
      [] OTHER -> NoReceipt

\* the receipt tx.wait() yields for the transaction the header names
receiptOfHeader(header) == WalletChainReceipt(toLowerCase(header.text))

\* usdcContract.interface.parseLog({topics, data}): the event is found by
\* its topic alone; a log of another event parses to null, a Transfer log
\* without its two indexed arguments throws
NoParsedLog == [name |-> "", from |-> <<>>, to |-> <<>>, amount |-> 0]
parseLog(log) ==
    IF Len(log.topics) = 3 /\ log.topics[1] = eventTopic
    THEN [name |-> "Transfer",
          from |-> <<"0","x">> \o sliceFrom(log.topics[2], 26),
          to |-> <<"0","x">> \o sliceFrom(log.topics[3], 26),
          amount |-> log.data]
    ELSE NoParsedLog

\* whether the loop body sets isValidPayment for this log
paysWallet(log) ==
    LET parsedLog == parseLog(log) IN
    /\ parsedLog.name = "Transfer"
    /\ toLowerCase(parsedLog.to) = toLowerCase(WalletAddress)
    /\ parsedLog.amount >= 1000000

RECURSIVE findPayment(_, _)
\* for (const log of receipt.logs), from the i-th log on: the first log
\* that pays the wallet ends the loop
findPayment(logs, i) ==
    IF i > Len(logs) THEN [isValidPayment |-> FALSE, payer |-> <<>>]
    ELSE IF paysWallet(logs[i])
         THEN [isValidPayment |-> TRUE, payer |-> parseLog(logs[i]).from]
         ELSE findPayment(logs, i + 1)

\* the res.status(400) answers of the transaction-hash branch
transactionNotFoundResponse(message) ==
    [status |-> 400,
     body |-> [success |-> FALSE, error |-> "Transaction not found",
               message |-> message]]
transactionFailedResponse(message) ==
    [status |-> 400,
     body |-> [success |-> FALSE, error |-> "Transaction failed", message |-> message]]
invalidPaymentResponse(message) ==
    [status |-> 400,
     body |-> [success |-> FALSE, error |-> "Invalid payment", message |-> message]]

\* the texts of the answers of the hybrid handler
HybridTexts ==
    [notFound |-> "Please wait for the transaction to be confirmed",
     failed |-> "", invalid |-> ""]

\* a slot of the hybrid handler with no request
IdleHybridReq ==
    [handler |-> "hybrid", pc |-> "idle", id |-> 0,
     paymentHeader |-> Undefined, auth |-> NoAuthorization,
     paymentId |-> Undefined, payer |-> <<>>, mintTx |-> 0, res |-> NoResponse]

InitHybrid ==
    /\ processedPayments = {}
    /\ req = [r \in Slots |-> IdleHybridReq]
    /\ ledger = <<>>
    /\ now = 0
    /\ started = 0

\* const paymentId = paymentHeader: the member of processedPayments for a
\* request without authorization. The headers received are never the text
\* of a signature, so the two kinds of member are kept apart by shape.
headerKey(header) == [present |-> TRUE, value |-> "", header |-> header]

\* paymentData && paymentData.payload && paymentData.payload.authorization
hasAuthorization(decoded) ==
    /\ decoded.ok
    /\ ~decoded.paymentData.isNull
    /\ decoded.paymentData.payload.present
    /\ decoded.paymentData.payload.authorization.present

\* the authorization branch after the processed check (lines 149-170): the
\* amount and the recipient are tested, the signature is not looked at, and
\* the handler goes on to the reward
authorizationAccepted(q, auth) ==
    IF insufficientAmount(parseInt(auth.value))
    THEN RespondPermit(q, insufficientAmountResponse)
    ELSE IF ~auth.to.present
    THEN RespondPermit(q, permitFailureResponse("Cannot read properties of undefined"))
    ELSE IF invalidRecipient(auth.to.value)
    THEN RespondPermit(q, invalidRecipientResponse)
    ELSE [q EXCEPT !.pc = "awaitMint"]

\* a request arrives and is handled up to its first await (lines 69-184 and,
\* on the authorization branch, 234-236)
StartHybrid(r, in) ==
    /\ req[r].pc \in {"idle", "done"}
    /\ req[r].handler = "hybrid"
    /\ started' = started + 1
    /\ LET paymentHeader == IF in.xPayment.present THEN in.xPayment
                            ELSE in.xPaymentTx
           q == [IdleHybridReq EXCEPT !.id = started + 1,
                                      !.paymentHeader = paymentHeader]
       IN req' = [req EXCEPT ![r] =
            IF ~paymentHeader.present
            THEN RespondPermit(q, permitChallengeResponse)
            ELSE LET decoded == decodePayment(paymentHeader.value) IN
                 IF hasAuthorization(decoded)
                 THEN LET auth == decoded.paymentData.payload.authorization
                          p == [q EXCEPT
                                  !.auth = auth, !.payer = auth.from,
                                  !.paymentId = paymentIdOf(decoded.paymentData.payload)]
                      IN IF p.paymentId \in processedPayments
                         THEN RespondPermit(p, permitAlreadyProcessedResponse)
                         ELSE authorizationAccepted(p, auth)
                 ELSE LET p == [q EXCEPT !.paymentId = headerKey(paymentHeader.value)] IN
                      IF p.paymentId \in processedPayments
                      THEN RespondPermit(p, permitAlreadyProcessedResponse)
                      ELSE [p EXCEPT !.pc = "awaitTx"]]
    /\ UNCHANGED <<processedPayments, ledger, now>>

\* how tx.wait() of the payment transaction ends: its receipt, null, or an
\* error
TxWaitOutcomes == {"returns", "null", "throws"}

\* provider.getTransaction(paymentHeader) ends (lines 184-194): an error goes
\* to the outer catch, null is answered 400, a transaction is waited for
afterGetTransaction(q, outcome, texts) ==
    CASE outcome = "throws" -> RespondPermit(q, permitFailureResponse("RPC error"))
      [] outcome = "null" ->
            RespondPermit(q, transactionNotFoundResponse(texts.notFound))
      [] OTHER -> [q EXCEPT !.pc = "awaitTxWait"]

\* tx.wait() ends (lines 194-236): a missing or failed receipt is answered
\* 400; the logs are scanned; a receipt without payment to the wallet is
\* answered 400, otherwise pogContract.transfer is called for the payer found
afterTxWait(q, outcome, texts) ==
    LET receipt == receiptOfHeader(q.paymentHeader.value)
        found == findPayment(receipt.logs, 1)
    IN CASE outcome = "throws" -> RespondPermit(q, permitFailureResponse("wait failed"))
         [] outcome = "null" ->
               RespondPermit(q, transactionFailedResponse(texts.failed))
         [] OTHER ->
               IF receipt.status # 1
               THEN RespondPermit(q, transactionFailedResponse(texts.failed))
               ELSE IF ~found.isValidPayment
               THEN RespondPermit(q, invalidPaymentResponse(texts.invalid))
               ELSE [q EXCEPT !.payer = found.payer, !.pc = "awaitMint"]

\* what provider.getTransaction can do for the header of q: it throws for
\* text that is no hash, it returns only a transaction the chain holds
getTransactionMay(q, outcome) ==
    /\ outcome # "throws" => headerIsHash(q.paymentHeader.value)
    /\ outcome = "returns" => receiptOfHeader(q.paymentHeader.value).found

HybridTxReturns(r, outcome) ==
    /\ req[r].pc = "awaitTx"
    /\ req[r].handler = "hybrid"
    /\ getTransactionMay(req[r], outcome)
    /\ req' = [req EXCEPT ![r] = afterGetTransaction(req[r], outcome, HybridTexts)]
    /\ UNCHANGED <<processedPayments, ledger, now, started>>

HybridTxWaitReturns(r, outcome) ==
    /\ req[r].pc = "awaitTxWait"
    /\ req[r].handler = "hybrid"
    /\ req' = [req EXCEPT ![r] = afterTxWait(req[r], outcome, HybridTexts)]
    /\ UNCHANGED <<processedPayments, ledger, now, started>>

\* the reward transfer the wallet sends for a request
rewardCall(q) ==
    [call |-> "transfer", by |-> q.id, key |-> q.paymentId,
     from |-> WalletAddress, to |-> q.payer, amount |-> POG_MINT_AMOUNT,
     status |-> "pending"]

\* pogContract.transfer ends (lines 236-237): it throws to the outer catch,
\* or the reward is sent and its confirmation awaited
HybridMintReturns(r, outcome) ==
    /\ req[r].pc = "awaitMint"
    /\ req[r].handler = "hybrid"
    /\ LET q == req[r] IN
       IF outcome = "throws"
       THEN /\ req' = [req EXCEPT ![r] =
                  RespondPermit(q, permitFailureResponse("transfer failed"))]
            /\ UNCHANGED ledger
       ELSE /\ ledger' = Append(ledger, rewardCall(q))
            /\ req' = [req EXCEPT ![r] = [q EXCEPT !.mintTx = Len(ledger) + 1,
                                                   !.pc = "awaitMintWait"]]
    /\ UNCHANGED <<processedPayments, now, started>>

\* mintTx.wait() ends (lines 237-256): the receipt is not looked at; unless
\* the wait throws, paymentId is added to processedPayments and the answer
\* is 200
HybridMintWaitReturns(r, outcome) ==
    /\ req[r].pc = "awaitMintWait"
    /\ req[r].handler = "hybrid"
    /\ LET q == req[r] IN
       /\ ledger' = [ledger EXCEPT ![q.mintTx].status = transferFate(outcome, @)]
       /\ IF outcome = "throws"
          THEN /\ req' = [req EXCEPT ![r] =
                     RespondPermit(q, permitFailureResponse("wait failed"))]
               /\ UNCHANGED processedPayments
          ELSE /\ processedPayments' = processedPayments \cup {q.paymentId}
               /\ req' = [req EXCEPT ![r] =
                     RespondPermit(q, permitSuccessResponse(q.mintTx, q.payer))]
    /\ UNCHANGED <<now, started>>

\* requests received in one run of a handler of part_001
MaxVariantRequests == 2

\* the transaction-hash headers: the payments, a hash in upper-case digits,
\* an unknown hash and text that is no hash
HashHeaders ==
    {TextHeader(h) : h \in {HashExact, HashBelow, HashReverted, HashMixed,
                            HashOtherToken, HashUnknown, UpperHashA,
                            <<"0","x","a","b","c">>}}

\* the envelopes: authorizations naming the wallet or a stranger, with the
\* minimum, less and more, under signatures that parse, one that does not,
\* and none
Envelopes ==
    {Base64Json(JsonNull), Base64Json(JsonObject(NoPayload)),
     Base64Json(JsonObject(Payload(NoAuthorization, Undefined)))}
    \cup {Base64Json(JsonObject(Payload(a, Str(SigA)))) :
            a \in {Authorization(PayerA, Str(WalletAddress), Str(ValueExact)),
                   Authorization(PayerB, Str(UpperWalletAddress), Str(ValueDouble)),
                   Authorization(PayerA, Str(WalletAddress), Str(ValueBelow)),
                   Authorization(PayerA, Str(Stranger), Str(ValueExact)),
                   Authorization(PayerA, Undefined, Str(ValueExact)),
                   Authorization(PayerA, Str(WalletAddress), Str(ValueWord))}}
    \cup {Base64Json(JsonObject(Payload(
              Authorization(Stranger, Str(WalletAddress), Str(ValueExact)), g))) :
            g \in {Str(SigMalformed), Undefined}}

HybridInputs ==
    {[xPayment |-> Undefined, xPaymentTx |-> Undefined]}
    \cup {[xPayment |-> Str(h), xPaymentTx |-> Undefined] : h \in Envelopes}
    \cup {[xPayment |-> Undefined, xPaymentTx |-> Str(h)] : h \in HashHeaders}

\* the requests of the hybrid handler, one at a time
NextHybrid ==
    \/ /\ started < MaxVariantRequests
       /\ \E in \in HybridInputs : StartHybrid(1, in)
    \/ \E o \in TxOutcomes : HybridTxReturns(1, o)
    \/ \E o \in TxWaitOutcomes : HybridTxWaitReturns(1, o)
    \/ \E o \in CallOutcomes : HybridMintReturns(1, o)
    \/ \E o \in WaitOutcomes : HybridMintWaitReturns(1, o)

SpecHybrid == InitHybrid /\ [][NextHybrid]_vars

-----------------------------------------------------------------------------
(* The transaction-hash variant (src/unnamed/part_001, lines 293-545): the
   X-Payment-Tx header names the payment transaction; processedTxs, a Set of
   the header values, is the variable processedPayments. *)

\* res.status(402) with the WWW-Authenticate header when no hash is given
txOnlyChallengeResponse ==
    [status |-> 402,
     wwwAuthenticate |-> [scheme |-> "exact", network |-> "base",
                          payTo |-> WalletAddress,
                          maxAmountRequired |-> "1000000",
                          asset |-> USDC_CONTRACT_ADDRESS],
     body |-> [x402Version |-> 1, error |-> "Payment required to mint POG tokens",
               accepts |-> <<[scheme |-> "exact", network |-> "base",
                              maxAmountRequired |-> "1000000",
                              resource |-> "https://pog-token-api.vercel.app/mint",
                              payTo |-> WalletAddress,
                              asset |-> USDC_CONTRACT_ADDRESS]>>]]

txOnlyAlreadyProcessedResponse ==
    [status |-> 400,
     body |-> [success |-> FALSE, error |-> "Payment already processed",
               message |-> "This transaction has already been used to mint tokens"]]

\* the texts of the answers of the transaction-hash handler
TxOnlyTexts ==
    [notFound |-> "Please wait for the transaction to be confirmed on the blockchain",
     failed |-> "The payment transaction failed or was not confirmed",
     invalid |-> "Must send at least 1 USDC to wallet.address on Base Mainnet"]

\* res.status(200) of a completed mint
txOnlySuccessResponse(mintTxHash, payer) ==
    [status |-> 200,
     body |-> [success |-> TRUE, message |-> "Successfully minted 10,000 POG tokens!",
               txHash |-> mintTxHash, amount |-> "10000 POG", recipient |-> payer,
               viewOnBaseScan |-> mintTxHash]]

\* a slot of the transaction-hash handler with no request
IdleTxOnlyReq == [IdleHybridReq EXCEPT !.handler = "txOnly"]

InitTxOnly ==
    /\ processedPayments = {}
    /\ req = [r \in Slots |-> IdleTxOnlyReq]
    /\ ledger = <<>>
    /\ now = 0
    /\ started = 0

\* a request arrives and is handled up to its first await (lines 359-433)
StartTxOnly(r, in) ==
    /\ req[r].pc \in {"idle", "done"}
    /\ req[r].handler = "txOnly"
    /\ started' = started + 1
    /\ LET paymentTxHash == in.xPaymentTx
           q == [IdleTxOnlyReq EXCEPT !.id = started + 1,
                                      !.paymentHeader = paymentTxHash,
                                      !.paymentId = headerKey(paymentTxHash.value)]
       IN req' = [req EXCEPT ![r] =
            IF ~paymentTxHash.present
            THEN RespondPermit([q EXCEPT !.paymentId = Undefined],
                               txOnlyChallengeResponse)
            ELSE IF q.paymentId \in processedPayments
            THEN RespondPermit(q, txOnlyAlreadyProcessedResponse)
            ELSE [q EXCEPT !.pc = "awaitTx"]]
    /\ UNCHANGED <<processedPayments, ledger, now>>

\* provider.getTransaction(paymentTxHash) ends (lines 433-443)
TxOnlyTxReturns(r, outcome) ==
    /\ req[r].pc = "awaitTx"
    /\ req[r].handler = "txOnly"
    /\ getTransactionMay(req[r], outcome)
    /\ req' = [req EXCEPT ![r] = afterGetTransaction(req[r], outcome, TxOnlyTexts)]
    /\ UNCHANGED <<processedPayments, ledger, now, started>>

\* tx.wait() ends and the logs are scanned (lines 443-490)
TxOnlyTxWaitReturns(r, outcome) ==
    /\ req[r].pc = "awaitTxWait"
    /\ req[r].handler = "txOnly"
    /\ req' = [req EXCEPT ![r] = afterTxWait(req[r], outcome, TxOnlyTexts)]
    /\ UNCHANGED <<processedPayments, ledger, now, started>>

\* pogContract.transfer ends (lines 490-491)
TxOnlyMintReturns(r, outcome) ==
    /\ req[r].pc = "awaitMint"
    /\ req[r].handler = "txOnly"
    /\ LET q == req[r] IN
       IF outcome = "throws"
       THEN /\ req' = [req EXCEPT ![r] =
                  RespondPermit(q, permitFailureResponse("transfer failed"))]
            /\ UNCHANGED ledger
       ELSE /\ ledger' = Append(ledger, rewardCall(q))
            /\ req' = [req EXCEPT ![r] = [q EXCEPT !.mintTx = Len(ledger) + 1,
                                                   !.pc = "awaitMintWait"]]
    /\ UNCHANGED <<processedPayments, now, started>>

\* await mintTx.wait() ends (lines 491-512): its result is dropped; unless it
\* throws, the header is added to processedTxs and the answer is 200
TxOnlyMintWaitReturns(r, outcome) ==
    /\ req[r].pc = "awaitMintWait"
    /\ req[r].handler = "txOnly"
    /\ LET q == req[r] IN
       /\ ledger' = [ledger EXCEPT ![q.mintTx].status = transferFate(outcome, @)]
       /\ IF outcome = "throws"
          THEN /\ req' = [req EXCEPT ![r] =
                     RespondPermit(q, permitFailureResponse("wait failed"))]
               /\ UNCHANGED processedPayments
          ELSE /\ processedPayments' = processedPayments \cup {q.paymentId}
               /\ req' = [req EXCEPT ![r] =
                     RespondPermit(q, txOnlySuccessResponse(q.mintTx, q.payer))]
    /\ UNCHANGED <<now, started>>

\* the X-Payment-Tx headers: none, the hashes, and an envelope, which this
\* handler hands to the node as it is
TxOnlyInputs ==
    {[xPayment |-> Undefined, xPaymentTx |-> Undefined]}
    \cup {[xPayment |-> Undefined, xPaymentTx |-> Str(h)] : h \in HashHeaders}
    \cup {[xPayment |-> Undefined,
           xPaymentTx |-> Str(Base64Json(JsonObject(Payload(
               Authorization(PayerA, Str(WalletAddress), Str(ValueExact)),
               Str(SigA)))))]}

\* the requests of the transaction-hash handler, one at a time
NextTxOnly ==
    \/ /\ started < MaxVariantRequests
       /\ \E in \in TxOnlyInputs : StartTxOnly(1, in)
    \/ \E o \in TxOutcomes : TxOnlyTxReturns(1, o)
    \/ \E o \in TxWaitOutcomes : TxOnlyTxWaitReturns(1, o)
    \/ \E o \in CallOutcomes : TxOnlyMintReturns(1, o)
    \/ \E o \in WaitOutcomes : TxOnlyMintWaitReturns(1, o)

\* part_001 holds two programs; a run is a run of one of them
InitVariants == InitHybrid \/ InitTxOnly
NextVariants == NextHybrid \/ NextTxOnly
SpecVariants == InitVariants /\ [][NextVariants]_vars

-----------------------------------------------------------------------------
(* The four /mint handlers of the repository side by side: a run is a run
   of one program, told by the shape of its request records. *)

\* requests received in one run of server.js when the handlers are compared
MaxServerRequests == 2

IsServerRun == "chainReads" \in DOMAIN req[1]
IsPermitRun == "permitTx" \in DOMAIN req[1]
IsVariantRun == "handler" \in DOMAIN req[1]

\* the requests of SeqInputs, and the valid payment with an empty ?payer=
ServerInputs ==
    SeqInputs \cup {Request(Str(HashExact), Undefined, Str(<<>>))}

\* the requests of server.js, one at a time
NextServer ==
    \/ /\ started < MaxServerRequests
       /\ \E in \in ServerInputs : Start(1, in)
    \/ Step(1)

InitHandlers == Init \/ InitPermit \/ InitVariants
NextHandlers ==
    \/ IsServerRun /\ NextServer
    \/ IsPermitRun /\ NextPermit
    \/ IsVariantRun /\ NextVariants
SpecHandlers == InitHandlers /\ [][NextHandlers]_vars

-----------------------------------------------------------------------------
(* A restart of the server.js process *)

\* the process ends and the module is loaded again: processedPayments is a
\* new, empty Map (line 32) and the requests in flight are gone; what was
\* sent to the chain stays there
Restart ==
    /\ IsServerRun
    /\ processedPayments' = <<>>
    /\ req' = [r \in Slots |-> IdleReq]
    /\ UNCHANGED <<ledger, now, started>>

\* sequential requests to a process that may be restarted at any time
NextRestart == NextServer \/ Restart
SpecRestart == Init /\ [][NextRestart]_vars

-----------------------------------------------------------------------------
(* Every call to a collaborator ends *)

\* each awaited call of each request in flight eventually returns or throws:
\* the promise the handler awaits is settled
\* the clock is left out: new Date() reads the time of arrival of the first
\* request
StepLive(r) ==
    \/ \E o \in CallOutcomes : ReceiptReturns(r, o)
    \/ \E o \in TxOutcomes : TxReturns(r, o)
    \/ \E o \in CallOutcomes : TransferReturns(r, o)
    \/ \E o \in WaitOutcomes : WaitReturns(r, o, now, now)

CallsEnd == \A r \in 1..2 : WF_vars(StepLive(r))

\* requests received in a run in which every call ends
MaxLiveRequests == 2

\* a request without proof, the valid payment and a payment below the
\* minimum
LiveInputs ==
    { Request(Undefined, Undefined, Undefined),
      Request(Str(HashExact), Undefined, Undefined),
      Request(Str(HashBelow), Undefined, Undefined) }

\* two requests at a time may overlap
NextLive ==
    \E r \in 1..2 :
        \/ /\ started < MaxLiveRequests
           /\ FreeSlot(r)
           /\ \E in \in LiveInputs : Start(r, in)
        \/ StepLive(r)

SpecLive == Init /\ [][NextLive]_vars /\ CallsEnd

-----------------------------------------------------------------------------
(* Properties *)

InFlight(r) == req[r].pc \in {"awaitReceipt", "awaitTx", "awaitTransfer", "awaitWait"}
Done(r) == req[r].pc = "done"
\* the transfers submitted for the request in slot r
TransfersOf(r) == {i \in DOMAIN ledger : ledger[i].by = req[r].id}
\* the confirmed transfers for a key of processedPayments
ConfirmedFor(key) ==
    {i \in DOMAIN ledger : ledger[i].key = key /\ ledger[i].status = "confirmed"}

\* C1: when requests carrying the same transaction hash are handled
\* concurrently, at most one of them settles: for every hash at most one
\* reward transfer is confirmed and recorded in processedPayments.
C1_OneSettlementPerHash ==
    \A i, j \in DOMAIN ledger :
        (/\ ledger[i].key = ledger[j].key
         /\ ledger[i].status = "confirmed"
         /\ ledger[j].status = "confirmed") => i = j

\* C2: with strictly sequential requests, once a request with normalized
\* hash H has completed with a successful mint, no later request with the
\* same normalized hash submits a transfer again.
C2_NoTransferAfterSettlement ==
    \A i, j \in DOMAIN ledger :
        (i < j /\ ledger[i].status = "confirmed") => ledger[j].key # ledger[i].key

\* a settled hash was submitted again and answered "already processed"
C2_Witness ==
    /\ Done(1)
    /\ req[1].res.status = 400
    /\ ConfirmedFor(req[1].txHash) # {}
    /\ TransfersOf(1) = {}

\* C9: while a request bearing an identity has passed the already-processed
\* check and has neither committed nor failed, no other request bearing the
\* same identity is in flight: the duplicate is rejected on arrival.
C9_DuplicateRejectedWhileInFlight ==
    \A r, s \in Slots :
        (r # s /\ InFlight(r) /\ InFlight(s)) => req[r].txHash # req[s].txHash

\* the addresses that send USDC in the receipts of the chain
Senders == {PayerA, PayerB}

\* the indexed arguments of the Transfer logs that pay the payment address
SenderTopic == [from \in Senders |-> Topic(from)]
PayeeTopic == Topic(PAYMENT_ADDRESS)

\* log is a USDC Transfer of at least the required amount from address from
\* to the payment address
IsPaymentFrom(log, from) ==
    /\ log.address = USDC_CONTRACT_ADDRESS
    /\ log.data >= REQUIRED_USDC_AMOUNT
    /\ log.topics = <<eventTopic, SenderTopic[from], PayeeTopic>>

\* C3: the address a reward transfer goes to is the source of a qualifying
\* USDC Transfer log in the receipt of the submitted transaction, whatever
\* the ?payer parameter says.
C3_RewardGoesToTransferSource ==
    \A i \in DOMAIN ledger :
        LET logs == ChainReceipt(toLowerCase(ledger[i].key)).logs IN
        \E k \in DOMAIN logs, from \in Senders :
            IsPaymentFrom(logs[k], from) /\ ledger[i].to = from

\* a transfer was submitted for a request that carried a ?payer value
C3_Witness ==
    \E r \in Slots :
        /\ req[r].pc = "awaitWait"
        /\ Truthy(req[r].payerQuery)
        /\ TransfersOf(r) # {}

\* the request in slot r found its hash settled and did not mint
Resubmitted(r) ==
    /\ Done(r)
    /\ req[r].txHash \in DOMAIN processedPayments
    /\ TransfersOf(r) = {}

\* C4 as stated: a proof submitted again after it settled is answered with
\* the stored settlement record (payer, mint transaction, timestamp) as a
\* success.
C4_ResubmissionReturnsRecord ==
    \A r \in Slots :
        Resubmitted(r) =>
            LET rec == processedPayments[req[r].txHash] IN
            /\ req[r].res.status = 200
            /\ req[r].res.body.recipient = rec.payer
            /\ req[r].res.body.mintTransaction = rec.mintTxHash
            /\ req[r].res.body.timestamp = rec.timestamp

\* C4 as amended: a proof submitted again after it settled is answered 400
\* "Payment already processed" with the normalized hash echoed; nothing is
\* minted again and the stored record still names the one confirmed transfer
\* and its recipient.
C4_ResubmissionRejectedRecordKept ==
    \A r \in Slots :
        Resubmitted(r) =>
            LET rec == processedPayments[req[r].txHash] IN
            /\ req[r].res.status = 400
            /\ req[r].res.body.success = FALSE
            /\ req[r].res.body.error = "Payment already processed"
            /\ req[r].res.body.transactionHash = req[r].txHash
            /\ ConfirmedFor(req[r].txHash) = {rec.mintTxHash}
            /\ ledger[rec.mintTxHash].to = rec.payer
            /\ \A i \in DOMAIN ledger :
                  ledger[i].key = req[r].txHash => i <= rec.mintTxHash

\* a settled hash was submitted again in another encoding of the header
C4_Witness ==
    /\ Resubmitted(1)
    /\ req[1].xPaymentTx.value # req[1].txHash

\* C5: a reward transfer is invoked only by a request whose verification
\* returned verified = true after both chain reads, and a request answered
\* 402 or 400 has invoked no transfer.
C5_TransferOnlyAfterVerification ==
    \A r \in Slots :
        /\ (req[r].pc \in {"awaitTransfer", "awaitWait"} \/ TransfersOf(r) # {})
              => (req[r].verification.verified /\ req[r].chainReads = 2)
        /\ (Done(r) /\ req[r].res.status \in {400, 402})
              => (TransfersOf(r) = {} /\ req[r].mintTx = 0)

\* a request was rejected on the payer check after an earlier request minted
C5_Witness ==
    /\ Done(1)
    /\ req[1].res.status = 402
    /\ req[1].chainReads = 2
    /\ req[1].res.body.message = "Payer address does not match transaction"
    /\ ledger # <<>>

\* the reasons a verification fails without the logs having been judged
ReadFailures == {"RPC error", "Transaction details not found"}

\* C6: the transaction whose only transfer to the payee is 999999 never
\* mints and is rejected for want of a qualifying transfer; the transaction
\* with a transfer of exactly 1000000 from PayerA is verified and settles
\* with PayerA as recipient.
C6_MinimumQualifies ==
    \A r \in Slots :
        /\ req[r].txHash = HashBelow =>
              /\ req[r].pc \notin {"awaitTransfer", "awaitWait"}
              /\ TransfersOf(r) = {}
              /\ Done(r) =>
                    /\ req[r].res.status = 402
                    /\ req[r].res.body.message \in
                          ReadFailures \cup {"No USDC transfer to payment address found"}
        /\ (req[r].txHash = HashExact /\ ~Truthy(req[r].payerQuery)) =>
              /\ (Done(r) /\ req[r].res.status = 402)
                    => req[r].res.body.message \in ReadFailures
              /\ (Done(r) /\ req[r].res.status = 200)
                    => req[r].res.body.recipient = PayerA
              /\ req[r].pc \in {"awaitTransfer", "awaitWait"}
                    => req[r].verification = Verified(PayerA, 1000000)

\* the payment of exactly the minimum settled with PayerA as recipient
C6_Witness ==
    /\ Done(1)
    /\ req[1].txHash = HashExact
    /\ req[1].res.status = 200
    /\ req[1].res.body.recipient = PayerA
    /\ ledger[req[1].mintTx].amount = POG_MINT_AMOUNT

\* the request in slot r was verified and its mint did not succeed
MintFailed(r) ==
    /\ Done(r)
    /\ req[r].verification.verified
    /\ (req[r].mintTx = 0 \/ ledger[req[r].mintTx].status # "confirmed")

\* C7: a request whose mint failed after a successful verification is
\* answered 500 and leaves its hash out of processedPayments, and a request
\* is answered "already processed" only for a hash with a confirmed mint.
C7_FailedMintNotMarked ==
    \A r \in Slots :
        /\ MintFailed(r) =>
              /\ req[r].txHash \notin DOMAIN processedPayments
              /\ req[r].res.status = 500
        /\ (Done(r) /\ req[r].res.status = 400)
              => ConfirmedFor(req[r].txHash) # {}

\* a hash whose earlier mint failed was submitted again and settled
C7_Witness ==
    /\ Done(1)
    /\ req[1].res.status = 200
    /\ \E i \in DOMAIN ledger :
          /\ ledger[i].key = req[1].txHash
          /\ ledger[i].by # req[1].id
          /\ ledger[i].status # "confirmed"

\* C8: requests whose headers denote the same 32-byte transaction hash
\* (whatever the prefix, the trailing characters or the letter case) share
\* one key: once one has settled, no transfer is submitted for another.
C8_SameTransactionCollides ==
    \A i, j \in DOMAIN ledger :
        (i < j /\ ledger[i].status = "confirmed")
            => toLowerCase(ledger[j].key) # toLowerCase(ledger[i].key)

\* the request carries neither proof header (an empty header counts as none)
NoProof(q) ==
    /\ ~(q.xPaymentTx.present /\ Len(q.xPaymentTx.value) > 0)
    /\ ~(q.xPayment.present /\ Len(q.xPayment.value) > 0)

\* what a request without proof has got and done
C10_Challenge ==
    \A r \in Slots :
        (req[r].pc # "idle" /\ NoProof(req[r])) =>
            /\ Done(r)
            /\ req[r].res.status = 402
            /\ req[r].res.body.x402Version = 1
            /\ req[r].res.body.accepts[1].payTo = PAYMENT_ADDRESS
            /\ req[r].res.body.accepts[1].maxAmountRequired = "1000000"
            /\ req[r].res.body.accepts[1].asset = USDC_CONTRACT_ADDRESS
            /\ req[r].chainReads = 0
            /\ req[r].mintTx = 0
            /\ TransfersOf(r) = {}

\* what the arrival of a request without proof leaves alone
C10_Frame ==
    \A r \in Slots :
        (req'[r].id # req[r].id /\ NoProof(req'[r]))
            => (processedPayments' = processedPayments /\ ledger' = ledger)

\* C10: a request with neither X-Payment-Tx nor X-Payment is answered 402
\* with x402Version 1 and a descriptor naming PAYMENT_ADDRESS, "1000000" and
\* the USDC address; it reads nothing from the chain, transfers nothing and
\* leaves processedPayments unchanged.
C10_ChallengeOnMissingProof == [](C10_Challenge) /\ [][C10_Frame]_vars

\* a request without proof was answered after a payment had been recorded
C10_Witness ==
    /\ Done(1)
    /\ NoProof(req[1])
    /\ req[1].res.status = 402
    /\ DOMAIN processedPayments # {}

\* the request in slot r ended because verifyUSDCPayment did not verify it
VerificationFailed(r) ==
    /\ Done(r)
    /\ req[r].chainReads >= 1
    /\ ~req[r].verification.verified

\* what a request whose verification failed has got and done
C11_Rejection ==
    \A r \in Slots :
        VerificationFailed(r) =>
            /\ req[r].res.status = 402
            /\ req[r].res.body.success = FALSE
            /\ req[r].res.body.message = req[r].verification.error
            /\ req[r].res.body.accepts[1].payTo =
                  challengeResponse.body.accepts[1].payTo
            /\ req[r].res.body.accepts[1].asset =
                  challengeResponse.body.accepts[1].asset
            /\ req[r].res.body.accepts[1].maxAmountRequired =
                  challengeResponse.body.accepts[1].maxAmountRequired
            /\ TransfersOf(r) = {}

\* the step that rejects a request leaves processedPayments alone, and the
\* next request with the same hash goes to verification
C11_Retry ==
    \A r \in Slots :
        /\ (req'[r] # req[r] /\ VerificationFailed(r)')
              => processedPayments' = processedPayments
        /\ (VerificationFailed(r) /\ req'[r].id # req[r].id
                /\ req'[r].txHash = req[r].txHash)
              => (req'[r].pc = "awaitReceipt" /\ req'[r].chainReads = 1)

\* C11: a request whose verification fails, for whatever reason, is answered
\* 402 with success false, the reason, and a descriptor with the payTo,
\* asset and maxAmountRequired of the challenge; processedPayments is left
\* unchanged and the next request with the same hash is verified again.
C11_VerificationFailureRejected == [](C11_Rejection) /\ [][C11_Retry]_vars

\* the valid payment was rejected on an RPC error, after another payment had
\* settled and with a further request still to come
C11_Witness ==
    /\ VerificationFailed(1)
    /\ req[1].txHash = HashExact
    /\ req[1].res.body.message = "RPC error"
    /\ DOMAIN processedPayments # {}
    /\ started < MaxSeqRequests

\* C12: a record written to processedPayments is never deleted, overwritten
\* or changed by a later step, whatever the interleaving of requests: every
\* key keeps the record it was given first.
C12_RecordNeverOverwritten ==
    [][\A k \in DOMAIN processedPayments :
          /\ k \in DOMAIN processedPayments'
          /\ processedPayments'[k] = processedPayments[k]]_vars

\* the reasons left to a request whose logs found no qualifying transfer
NoTransferReasons == ReadFailures \cup {"No USDC transfer to payment address found"}

\* C15: the transaction whose only Transfer to the payee (5000000, more than
\* the minimum) was emitted by a contract other than USDC never leads to a
\* mint: no request for it reaches the transfer, and once its logs are
\* scanned it is rejected for want of a USDC transfer.
C15_OtherTokenRejected ==
    \A r \in Slots :
        req[r].txHash = HashOtherToken =>
            /\ req[r].pc \notin {"awaitTransfer", "awaitWait"}
            /\ TransfersOf(r) = {}
            /\ req[r].txHash \notin DOMAIN processedPayments
            /\ Done(r) =>
                  /\ req[r].res.status = 402
                  /\ req[r].res.body.message \in NoTransferReasons
                  /\ req[r].chainReads = 2 =>
                        req[r].verification.error \in
                            {"No USDC transfer to payment address found",
                             "RPC error", "Transaction details not found"}

\* the logs of the other token's transfer were scanned and none qualified
C15_Witness ==
    /\ Done(1)
    /\ req[1].txHash = HashOtherToken
    /\ req[1].chainReads = 2
    /\ req[1].res.body.message = "No USDC transfer to payment address found"

\* the logs of the receipt the chain holds for the hash of request q
LogsOf(q) == ChainReceipt(toLowerCase(q.txHash)).logs

\* the positions of the logs that pay the payment address at least the minimum
PaymentsIn(logs) ==
    {k \in DOMAIN logs : \E from \in Senders : IsPaymentFrom(logs[k], from)}

\* C16: the logs are scanned in order and the first one that by itself is a
\* USDC transfer of at least the minimum to the payee gives the payer and
\* the amount: a verified request has the source and the amount of the
\* earliest such log of its receipt, and the receipt whose two transfers of
\* 600000 only together reach the minimum is never verified.
C16_FirstMatchNoSumming ==
    \A r \in Slots :
        /\ req[r].pc \in {"awaitTransfer", "awaitWait"} =>
              LET logs == LogsOf(req[r])
                  first == CHOOSE k \in PaymentsIn(logs) :
                              \A j \in PaymentsIn(logs) : k <= j
              IN /\ PaymentsIn(logs) # {}
                 /\ req[r].verification.amount = logs[first].data
                 /\ IsPaymentFrom(logs[first], req[r].verification.payer)
        /\ req[r].txHash = HashSplit =>
              /\ req[r].pc \notin {"awaitTransfer", "awaitWait"}
              /\ TransfersOf(r) = {}
              /\ (Done(r) /\ req[r].chainReads = 2) =>
                    /\ req[r].res.status = 402
                    /\ req[r].res.body.message \in NoTransferReasons

\* the receipt with two qualifying logs settled to the source of the earlier
\* one, which paid 2000000
C16_Witness ==
    /\ Done(1)
    /\ req[1].txHash = HashMixed
    /\ req[1].res.status = 200
    /\ req[1].res.body.recipient = PayerB
    /\ req[1].verification.amount = 2000000

\* the reason given when the receipt is absent
NotFoundReason ==
    "Transaction not found. Please verify the hash and ensure it is confirmed."

\* the request in slot r asked for the transaction the chain does not hold
ReceiptAbsent(r) == req[r].txHash = HashUnknown

\* the request in slot r asked for the transaction that reverted
ReceiptOfFailure(r) == req[r].txHash = HashReverted

\* what a request for an absent or failed transaction has got and done
C17_Rejected ==
    \A r \in Slots :
        (ReceiptAbsent(r) \/ ReceiptOfFailure(r)) =>
            /\ req[r].pc \in {"awaitReceipt", "done"}
            /\ req[r].chainReads = 1
            /\ TransfersOf(r) = {}
            /\ \A i \in DOMAIN ledger : ledger[i].key # req[r].txHash
            /\ Done(r) =>
                  /\ req[r].res.status = 402
                  /\ req[r].res.body.message \in
                        {"RPC error",
                         IF ReceiptAbsent(r) THEN NotFoundReason
                         ELSE "Transaction failed"}

\* what the steps of such a request leave alone
C17_Frame ==
    \A r \in Slots :
        (req'[r] # req[r] /\ (ReceiptAbsent(r)' \/ ReceiptOfFailure(r)'))
            => (processedPayments' = processedPayments /\ ledger' = ledger)

\* C17: a proof whose receipt is absent is rejected with the not-found
\* reason, and one whose receipt has a status other than 1 with
\* "Transaction failed" (unless the receipt fetch itself threw); the
\* transaction is not fetched, the logs are not scanned, no transfer is
\* submitted and processedPayments is unchanged.
C17_AbsentOrFailedRejected == [](C17_Rejected) /\ [][C17_Frame]_vars

\* the reverted transaction was rejected after another payment had settled
C17_Witness ==
    /\ Done(1)
    /\ req[1].txHash = HashReverted
    /\ req[1].res.body.message = "Transaction failed"
    /\ DOMAIN processedPayments # {}

\* h is 0x followed by at least 64 hex digits
IsHashProof(h) ==
    /\ Len(h) >= 2 + HashHexLen
    /\ SubSeq(h, 1, 2) = <<"0","x">>
    /\ \A i \in 3..(2 + HashHexLen) : h[i] \in HexDigits

\* C18: a proof header that is not 0x followed by at least 64 hex digits is
\* rejected as malformed by parsing alone: the request ends at once with a
\* 400 and no call to the provider is made for it.
C18_MalformedRejectedByParsing ==
    \A r \in Slots :
        (/\ req[r].pc # "idle"
         /\ ~NoProof(req[r])
         /\ ~IsHashProof(proofHeader(req[r].xPaymentTx, req[r].xPayment))) =>
            /\ Done(r)
            /\ req[r].chainReads = 0
            /\ req[r].res.status = 400

\* key is given a record, loses it or has it changed by the step
EntryChanges(key) ==
    \/ (key \in DOMAIN processedPayments) # (key \in DOMAIN processedPayments')
    \/ /\ key \in DOMAIN processedPayments
       /\ key \in DOMAIN processedPayments'
       /\ processedPayments'[key] # processedPayments[key]

\* only the step that completes a request for a hash touches the entry of
\* that hash, and a step of one request leaves every other request as it is
C19_Frame ==
    /\ \A key \in DOMAIN processedPayments \cup DOMAIN processedPayments' :
          EntryChanges(key) =>
              \E r \in Slots : /\ req[r].txHash = key
                               /\ req[r].pc = "awaitWait"
                               /\ req'[r].pc = "done"
    /\ \A r, s \in Slots :
          (r # s /\ req'[r] # req[r]) => req'[s] = req[s]

\* a request is answered "already processed" or 200 only on account of
\* transfers for its own hash
C19_OwnOutcome ==
    \A r \in Slots :
        /\ (Done(r) /\ req[r].res.status = 400)
              => \E i \in DOMAIN ledger : /\ ledger[i].key = req[r].txHash
                                          /\ ledger[i].status = "confirmed"
        /\ (Done(r) /\ req[r].res.status = 200)
              => /\ ledger[req[r].mintTx].key = req[r].txHash
                 /\ ledger[req[r].mintTx].by = req[r].id
                 /\ ledger[req[r].mintTx].status = "confirmed"

\* C19: for requests with different normalized hashes, in any interleaving,
\* handling one never adds, removes or changes the processedPayments entry
\* of the other nor the other request, and a request is blocked or settled
\* only on account of its own hash.
C19_DistinctHashesIndependent == [](C19_OwnOutcome) /\ [][C19_Frame]_vars

\* two overlapping requests with different hashes: one settled, the other
\* was rejected for its own receipt
C19_Witness ==
    /\ Done(1) /\ Done(2)
    /\ req[1].txHash = HashExact
    /\ req[1].res.status = 200
    /\ req[2].txHash = HashBelow
    /\ req[2].res.status = 402
    /\ req[2].chainReads = 2
    /\ DOMAIN processedPayments = {HashExact}

\* every request answered 400
C20_Answer ==
    \A r \in Slots :
        (Done(r) /\ req[r].res.status = 400) =>
            /\ req[r].res = alreadyProcessedResponse(req[r].txHash)
            /\ req[r].res.body.success = FALSE
            /\ req[r].res.body.error = "Payment already processed"
            /\ req[r].res.body.transactionHash =
                  cleanHash(proofHeader(req[r].xPaymentTx, req[r].xPayment))
            /\ req[r].chainReads = 0
            /\ TransfersOf(r) = {}

\* the arrival of a request whose hash is settled
C20_Arrival ==
    \A r \in Slots :
        (req'[r].id # req[r].id /\ req'[r].txHash \in DOMAIN processedPayments) =>
            /\ req'[r].pc = "done"
            /\ req'[r].res.status = 400
            /\ req'[r].chainReads = 0
            /\ ledger' = ledger
            /\ processedPayments' = processedPayments

\* C20: once a hash has settled, every later request carrying it, however
\* often repeated, is answered at arrival with status 400, success false,
\* error "Payment already processed" and the normalized hash echoed, with
\* no chain read and no transfer.
C20_ResubmissionAlwaysRejected == [](C20_Answer) /\ [][C20_Arrival]_vars

\* the first request settled and the last of the run was answered 400, with
\* no transfer submitted since the first
C20_Witness ==
    /\ started = MaxSeqRequests
    /\ Done(1)
    /\ req[1].res.status = 400
    /\ Len(ledger) = 1
    /\ ledger[1].by = 1
    /\ ledger[1].key = req[1].txHash

\* C21: an exception a collaborator raises while a request with a proof is
\* handled (an RPC error of the provider during verification, a revert or
\* RPC error of the reward transfer) always ends in a rejection: no such
\* request is answered with the 500 of the handler's catch.
C21_CollaboratorErrorsMapped ==
    \A r \in Slots :
        (Done(r) /\ ~NoProof(req[r])) => req[r].res.status # 500

\* the source and the amount of the qualifying transfer in the receipts of
\* the two payments requests carry a ?payer value with
PaidBy(txHash) == IF txHash = HashExact THEN PayerA ELSE PayerB
PaidAmount(txHash) == IF txHash = HashExact THEN 1000000 ELSE 2000000

\* the request names a payer other than the source of the payment
ClaimDiffers(q) ==
    /\ q.txHash \in {HashExact, HashMixed}
    /\ Truthy(q.payerQuery)
    /\ toLowerCase(q.payerQuery.value) # PaidBy(q.txHash)

\* the receipt and the transaction of the request were both read and its
\* logs examined
LogsExamined(q) ==
    /\ q.txHash \in {HashExact, HashMixed}
    /\ q.chainReads = 2
    /\ q.pc # "awaitTx"
    /\ q.verification.error \notin {"RPC error", "Transaction details not found"}

\* a differing claim ends in the 402 that names the mismatch, with no
\* transfer; without one the verification is that of the payment alone
C26_Outcome ==
    IsServerRun =>
      \A r \in Slots :
        LogsExamined(req[r]) =>
            IF ClaimDiffers(req[r])
            THEN /\ Done(r)
                 /\ req[r].res.status = 402
                 /\ req[r].res.body.message = "Payer address does not match transaction"
                 /\ TransfersOf(r) = {}
            ELSE req[r].verification =
                     Verified(PaidBy(req[r].txHash), PaidAmount(req[r].txHash))

\* no step of a request with a differing claim changes the ledger or
\* processedPayments
C26_Frame ==
    (IsServerRun /\ req'[1].pc # "idle" /\ ClaimDiffers(req'[1]))
    => UNCHANGED <<ledger, processedPayments>>

\* C26: in server.js a ?payer value that differs, case-insensitively, from
\* the source of the qualifying transfer ends the request with 'Payer
\* address does not match transaction', no transfer and processedPayments
\* unchanged; with no value, an empty one or an equal one the verification
\* is the same as without the parameter.
C26_PayerClaimOnlyRejects == [](C26_Outcome) /\ [][C26_Frame]_vars

\* the payment of PayerA was submitted with ?payer naming PayerB and was
\* rejected, after the payment of PayerB had settled
C26_Witness ==
    /\ IsServerRun
    /\ Done(1)
    /\ req[1].txHash = HashExact
    /\ ClaimDiffers(req[1])
    /\ req[1].res.status = 402
    /\ req[1].res.body.message = "Payer address does not match transaction"
    /\ Len(ledger) = 1
    /\ ledger[1].to = PayerB
    /\ HashMixed \in DOMAIN processedPayments

\* the transfers for the hash of the request in slot r that an earlier
\* request sent and saw confirmed
SettledEarlier(r) == {i \in ConfirmedFor(req[r].txHash) : ledger[i].by # req[r].id}

\* C28: also across restarts of the process, a request whose hash was
\* settled by an earlier request is answered 'Payment already processed' at
\* arrival and sends no transfer.
C28_NoResettlementAfterRestart ==
    \A r \in Slots :
        (req[r].pc # "idle" /\ SettledEarlier(r) # {})
        => /\ Done(r)
           /\ req[r].res.status = 400
           /\ req[r].res.body.error = "Payment already processed"
           /\ TransfersOf(r) = {}

\* every record names a transfer for its key that was confirmed and went to
\* the payer recorded, and every 200 answer names the confirmed transfer of
\* its own request
C29_Records ==
    /\ \A H \in DOMAIN processedPayments :
          LET record == processedPayments[H] IN
          /\ record.mintTxHash \in DOMAIN ledger
          /\ ledger[record.mintTxHash].key = H
          /\ ledger[record.mintTxHash].status = "confirmed"
          /\ ledger[record.mintTxHash].to = record.payer
    /\ \A r \in Slots :
          (Done(r) /\ req[r].res.status = 200) =>
              LET body == req[r].res.body IN
              /\ body.mintTransaction \in TransfersOf(r)
              /\ body.paymentTransaction = req[r].txHash
              /\ ledger[body.mintTransaction].status = "confirmed"
              /\ ledger[body.mintTransaction].to = body.recipient

\* a step that writes a record answers, in the same step, a request for the
\* key with 200, the record's payer as recipient and its mintTxHash as
\* mintTransaction
C29_Written ==
    \A H \in DOMAIN processedPayments' :
        (H \notin DOMAIN processedPayments \/ processedPayments'[H] # processedPayments[H])
        => \E r \in Slots :
              /\ req[r].pc = "awaitWait"
              /\ req'[r].pc = "done"
              /\ req'[r].txHash = H
              /\ req'[r].res.status = 200
              /\ req'[r].res.body.recipient = processedPayments'[H].payer
              /\ req'[r].res.body.mintTransaction = processedPayments'[H].mintTxHash

\* C29: in server.js every key H of processedPayments has a record naming a
\* reward transfer that was sent for H and confirmed with status 1, and the
\* record's payer and mintTxHash are the recipient and mintTransaction of
\* the 200 answer of the request that wrote it; no hash is marked without a
\* confirmed mint.
C29_RecordMatchesConfirmedMint == [](C29_Records) /\ [][C29_Written]_vars

\* a request was answered 200 and the record of its hash names its transfer
C29_Witness ==
    \E r \in Slots :
        /\ Done(r)
        /\ req[r].res.status = 200
        /\ req[r].txHash \in DOMAIN processedPayments
        /\ processedPayments[req[r].txHash].mintTxHash = req[r].res.body.mintTransaction
        /\ processedPayments[req[r].txHash].payer = req[r].res.body.recipient
        /\ ledger[req[r].mintTx].status = "confirmed"

\* C30: with strictly sequential requests, a transfer for a hash is sent
\* again only if every earlier transfer for it is known to have reverted: a
\* transfer whose confirmation was awaited in vain (the wait threw, or
\* yielded no receipt) is not followed by another for the same hash.
C30_NoTransferAfterUnconfirmed ==
    \A i, j \in DOMAIN ledger :
        (i < j /\ ledger[i].key = ledger[j].key) => ledger[i].status = "reverted"

\* the five answers of GET /mint
IsMintAnswer(res) ==
    \/ res.status = 402 /\ res.body.error = "X-Payment-Tx header is required"
    \/ res.status = 402 /\ res.body.error = "Payment verification failed"
    \/ res.status = 400 /\ res.body.error = "Payment already processed"
    \/ res.status = 200 /\ res.body.success
    \/ res.status = 500 /\ res.body.error = "Failed to process mint request"

\* a request has an answer exactly when its handler has ended, and the
\* answer is one of the five
C31_Answered ==
    \A r \in Slots :
        /\ Done(r) <=> req[r].res # NoResponse
        /\ Done(r) => IsMintAnswer(req[r].res)
        /\ req[r].pc = "idle" \/ Done(r) \/ InFlight(r)

\* a request that was answered takes no further step: its slot changes only
\* when the next request arrives in it
C31_Once ==
    \A r \in Slots :
        (Done(r) /\ req'[r] # req[r]) => req'[r].id = started + 1

\* C31: in server.js, if every call to a collaborator ends, every request
\* is eventually answered, with exactly one of the five answers of the
\* handler: none is left without an answer and none is answered twice.
C31_ExactlyOneResponse ==
    /\ \A r \in 1..2 : InFlight(r) ~> Done(r)
    /\ [](C31_Answered)
    /\ [][C31_Once]_vars

\* two requests that overlapped were both answered, one with 200 and one
\* with 500
C31_Witness ==
    /\ started = 2
    /\ Done(1) /\ Done(2)
    /\ req[1].res.status = 200
    /\ req[2].res.status = 500

\* the reward transfers confirmed since the process started
ConfirmedTransfers == {i \in DOMAIN ledger : ledger[i].status = "confirmed"}

\* C32: in every reachable state of server.js, also with overlapping
\* requests for one hash, the totalMints that GET /stats reports is the
\* number of reward transfers that were confirmed.
C32_TotalMintsCountsConfirmed == totalMints = Cardinality(ConfirmedTransfers)

-----------------------------------------------------------------------------
(* Properties of the permit variant *)

\* the transactions the wallet sent for the request in slot r
WalletCallsOf(r) == {i \in DOMAIN ledger : ledger[i].by = req[r].id}

\* the authorization of q names a recipient other than the server wallet
WrongRecipient(q) ==
    /\ q.auth.present
    /\ q.auth.to.present
    /\ toLowerCase(q.auth.to.value) # toLowerCase(WalletAddress)

\* the authorization of q is for 999999, one unit below the minimum
BelowMinimum(q) == q.auth.present /\ q.auth.value = Str(ValueBelow)

\* what a request with such an authorization has got and done
C13_Rejected ==
    \A r \in Slots :
        (req[r].pc # "idle" /\ (WrongRecipient(req[r]) \/ BelowMinimum(req[r]))) =>
            /\ Done(r)
            /\ req[r].res.status = 400
            /\ req[r].res.body.success = FALSE
            /\ req[r].permitTx = 0 /\ req[r].transferTx = 0 /\ req[r].mintTx = 0
            /\ WalletCallsOf(r) = {}

\* what the arrival of such a request leaves alone
C13_Frame ==
    \A r \in Slots :
        (req'[r].id # req[r].id
            /\ (WrongRecipient(req'[r]) \/ BelowMinimum(req'[r])))
          => (processedPayments' = processedPayments /\ ledger' = ledger)

\* C13: in the permit variant an authorization whose to is not the server
\* wallet, or whose value is below 1000000, is rejected before any relay:
\* the request sends no permit, no transferFrom and no reward transfer, and
\* processedPayments is unchanged.
C13_RejectedBeforeRelay == [](C13_Rejected) /\ [][C13_Frame]_vars

\* an authorization of 999999 to a stranger was rejected after another
\* authorization had settled
C13_Witness ==
    /\ Done(1)
    /\ WrongRecipient(req[1])
    /\ BelowMinimum(req[1])
    /\ req[1].res.body.error = "Insufficient payment amount"
    /\ processedPayments # {}

\* where a request is while the relay (permit, then transferFrom) is under way
InRelay(r) ==
    req[r].pc \in {"awaitPermit", "awaitPermitWait",
                   "awaitTransferFrom", "awaitTransferFromWait"}

\* the messages of the errors the relay can end with
RelayErrors ==
    {"permit failed", "Permit transaction failed", "transferFrom failed",
     "USDC transfer failed", "wait failed"}

\* a request whose relay ended without both transactions confirmed
C14_Rejected ==
    \A r \in Slots :
        (/\ Done(r)
         /\ req[r].permitTx # 0
         /\ \/ ledger[req[r].permitTx].status # "confirmed"
            \/ req[r].transferTx = 0
            \/ ledger[req[r].transferTx].status # "confirmed") =>
            /\ req[r].res.status = 400
            /\ req[r].res.body.message \in RelayErrors
            /\ req[r].mintTx = 0
            /\ req[r].paymentId \notin processedPayments

\* the step that ends a request during the relay
C14_Step ==
    \A r \in Slots :
        (InRelay(r) /\ req'[r].pc = "done") =>
            /\ req'[r].res.status = 400
            /\ req'[r].res.body.error = "Payment authorization failed"
            /\ req'[r].res.body.message \in RelayErrors
            /\ req'[r].mintTx = 0
            /\ \A i \in DOMAIN ledger' :
                  ledger'[i].by = req[r].id => ledger'[i].call # "transfer"
            /\ processedPayments' = processedPayments
            /\ req[r].paymentId \notin processedPayments'

\* C14: in the permit variant a failure of the relay (permit or transferFrom
\* throws, or its receipt is missing or has a status other than 1) is
\* answered 400 "Payment authorization failed" with the error's message, not
\* 500; no reward transfer is sent and the signature is not added to
\* processedPayments.
C14_RelayFailureRejected == [](C14_Rejected) /\ [][C14_Step]_vars

\* the permit was confirmed and the transferFrom reverted
C14_Witness ==
    /\ Done(1)
    /\ req[1].transferTx # 0
    /\ ledger[req[1].permitTx].status = "confirmed"
    /\ ledger[req[1].transferTx].status = "reverted"
    /\ req[1].res.body.message = "USDC transfer failed"

\* a call of the given kind by the request of ledger entry i, sent before
\* entry i and confirmed
ConfirmedBefore(call, i) ==
    \E j \in 1..(i - 1) :
        /\ ledger[j].call = call
        /\ ledger[j].by = ledger[i].by
        /\ ledger[j].status = "confirmed"

\* permit, transferFrom and the reward transfer of a request are sent in
\* this order, each after the one before it was confirmed
RelayInOrder ==
    \A i \in DOMAIN ledger :
        /\ ledger[i].call = "transferFrom" => ConfirmedBefore("permit", i)
        /\ ledger[i].call = "transfer" =>
               ConfirmedBefore("permit", i) /\ ConfirmedBefore("transferFrom", i)

NoNumber(q) == q.auth.present /\ q.auth.value \in {Undefined, Str(ValueWord)}

\* C33: in the permit variant an authorization for which permit was called
\* has a value that parses to a number of at least 1000000; one whose value
\* is missing or is no number is answered 'Insufficient payment amount' and
\* sends nothing.
C33_RelayedValueIsNumber ==
    \A r \in Slots :
        req[r].auth.present =>
            /\ (InRelay(r) \/ WalletCallsOf(r) # {}) =>
                  /\ ~parseInt(req[r].auth.value).nan
                  /\ parseInt(req[r].auth.value).n >= 1000000
            /\ (/\ NoNumber(req[r])
                /\ req[r].pc # "idle"
                /\ req[r].res # permitAlreadyProcessedResponse)
               => /\ Done(r)
                  /\ req[r].res = insufficientAmountResponse
                  /\ WalletCallsOf(r) = {}

-----------------------------------------------------------------------------
(* Properties of the variants of part_001 *)

\* whether a member of processedPayments, or the key of a ledger entry, is
\* the signature of an authorization
IsSignatureKey(key) == "header" \notin DOMAIN key

\* C22: in the hybrid variant a reward is transferred for an authorization
\* only after its payment was relayed and confirmed; the handler has no step
\* that verifies a signature, so a relay is the only ground there could be.
C22_RewardOnlyAfterRelay ==
    \A i \in DOMAIN ledger :
        (ledger[i].call = "transfer" /\ IsSignatureKey(ledger[i].key)) =>
            \E j \in 1..(i - 1) :
                /\ ledger[j].call = "transferFrom"
                /\ ledger[j].key = ledger[i].key
                /\ ledger[j].status = "confirmed"

\* whether a log is a Transfer of the USDC contract that pays the wallet
IsUSDCPaymentToWallet(log) ==
    /\ toLowerCase(log.address) = toLowerCase(USDC_CONTRACT_ADDRESS)
    /\ paysWallet(log)

\* C24: in both transaction-hash handlers of part_001 a reward is sent, and
\* a request answered 200, only for a transaction whose receipt holds a
\* Transfer log of the USDC contract paying the wallet; a receipt whose only
\* such log is of another token is answered 'Invalid payment'.
C24_OnlyUSDCLogsQualify ==
    /\ \A i \in DOMAIN ledger :
          ~IsSignatureKey(ledger[i].key) =>
              \E k \in DOMAIN receiptOfHeader(ledger[i].key.header).logs :
                  IsUSDCPaymentToWallet(receiptOfHeader(ledger[i].key.header).logs[k])
    /\ \A r \in Slots :
          (/\ req[r].paymentHeader = Str(TextHeader(HashOtherToken))
           /\ req[r].pc \notin {"idle", "awaitTx", "awaitTxWait"}
           /\ req[r].res.status # 500)
          => /\ req[r].pc = "done"
             /\ req[r].res.status = 400
             /\ req[r].res.body.error \in {"Invalid payment", "Transaction not found",
                                           "Transaction failed"}

\* the header a request of the permit or the hybrid handler carries
EnvelopeOf(q) ==
    IF "paymentHeader" \in DOMAIN q THEN q.paymentHeader
    ELSE IF q.xPayment.present THEN q.xPayment ELSE q.xPaymentTx

\* whether the request carries an envelope with an authorization
CarriesAuthorization(q) ==
    /\ "auth" \in DOMAIN q
    /\ EnvelopeOf(q).present
    /\ hasAuthorization(decodePayment(EnvelopeOf(q).value))

\* the signature inside the envelope of such a request
SignatureOf(q) == decodePayment(EnvelopeOf(q).value).paymentData.payload.signature

\* the signatures of the authorizations that have settled
SettledSignatures ==
    IF IsServerRun THEN {}
    ELSE {[present |-> k.present, value |-> k.value] :
            k \in {m \in processedPayments : IsSignatureKey(m)}}

\* the arrival of a request whose signature has settled ends at once with
\* the 400 of the processed test, whatever else its envelope holds, and
\* sends nothing
C25_Arrival ==
    (/\ started' = started + 1
     /\ CarriesAuthorization(req'[1])
     /\ SignatureOf(req'[1]) \in SettledSignatures)
    => /\ req'[1].pc = "done"
       /\ req'[1].res = permitAlreadyProcessedResponse
       /\ ledger' = ledger
       /\ processedPayments' = processedPayments

\* C25: in the permit and the hybrid variant the key of an authorization is
\* its signature alone: once an envelope has settled, a request carrying the
\* same signature in an envelope that differs in other fields is answered
\* 400 'Payment already processed' at arrival, with no relay and no mint.
C25_SameSignatureSameKey == [][C25_Arrival]_vars

\* in the permit variant an authorization of 999999 to a stranger was
\* rejected as processed: it carries the signature of the authorization of
\* 1000000 to the wallet that settled before it
C25_Witness ==
    /\ IsPermitRun
    /\ started = 2
    /\ req[1].pc = "done"
    /\ req[1].res = permitAlreadyProcessedResponse
    /\ req[1].auth.to = Str(Stranger)
    /\ req[1].auth.value = Str(ValueBelow)
    /\ processedPayments = {Str(SigA)}
    /\ Len(ledger) = 3
    /\ ledger[2].call = "transferFrom"
    /\ ledger[2].to = WalletAddress
    /\ ledger[3].status = "confirmed"

\* whether a ledger entry is a transfer of POG by the wallet (the entries
\* of server.js are all such transfers; the variants tell their calls apart)
IsReward(entry) == "call" \in DOMAIN entry => entry.call = "transfer"

\* C27: in every handler a transfer of POG is of exactly POG_MINT_AMOUNT,
\* whatever was paid, and no request has more than one.
C27_FixedReward ==
    /\ \A i \in DOMAIN ledger :
          IsReward(ledger[i]) => ledger[i].amount = POG_MINT_AMOUNT
    /\ \A r \in Slots :
          Cardinality({i \in DOMAIN ledger :
                          IsReward(ledger[i]) /\ ledger[i].by = req[r].id}) <= 1

\* in server.js the payment of 2000000 units was settled with one transfer
\* of 10000 POG
C27_Witness ==
    /\ IsServerRun
    /\ Done(1)
    /\ req[1].res.status = 200
    /\ req[1].txHash = HashMixed
    /\ req[1].verification.amount = 2000000
    /\ Len(ledger) = 1
    /\ ledger[1].amount = 10000
    /\ ledger[1].status = "confirmed"

=============================================================================
